---- MODULE Spec2Model ----
(***************************************************************************)
(* Model of the expense tracker service: the relational store (accounts,   *)
(* categories, payees, transactions), the service functions that query and *)
(* write it, and the router handlers that map their outcome to a response. *)
(*                                                                         *)
(* Conventions                                                             *)
(*   - a table is a function from the ids of its rows to row records;      *)
(*   - SQL NULL / Python None is NULL (0) for ids and dates, NULLS for     *)
(*     strings; ids and dates are >= 1;                                    *)
(*   - a date is its day of the year 2025 (1 = 2025-01-01, a Wednesday);   *)
(*   - money is a whole number of currency units;                          *)
(*   - an SQL aggregate that may be NULL is << >> (NULL) or <<v>>;         *)
(*   - sequences holds, per table, the id its next inserted row gets;      *)
(*   - a request body gives each field of its schema as << >> (not set by  *)
(*     the client) or <<v>> (set to v, which may be null);                 *)
(*   - of the columns of a table the model keeps one of each kind (foreign *)
(*     key, NOT NULL, nullable, defaulted); timestamps live in the         *)
(*     database and are left out;                                          *)
(*   - the triggers that maintain accounts.current_balance are part of the *)
(*     database schema, which is not among the sources: Triggers follows   *)
(*     the rules the specification states for them;                        *)
(*   - request and response are the request being served and its answer    *)
(*     where each handler runs as one step; sessions holds, where requests *)
(*     run side by side, what each of them has done so far with the        *)
(*     session get_db gave it, and is empty otherwise.                     *)
(***************************************************************************)
EXTENDS Integers, Sequences, FiniteSets, TLC

VARIABLES accounts, categories, payees, transactions, sequences, request,
          response, queried, sessions

vars == <<accounts, categories, payees, transactions, sequences, request,
          response, queried, sessions>>

store == <<accounts, categories, payees, transactions>>

(***************************************************************************)
(* Bounds of the model.  Num* and MaxTxn size the seeded store the         *)
(* analytics queries run against; Max*Rows cap the rows the create         *)
(* handlers insert in a table (the values its sequence hands out).         *)
(***************************************************************************)
NumAccounts == 2
NumCategories == 1
NumPayees == 0
MaxTxn == 2
NumDates == 2
NumAmounts == 2
MaxAccountRows == 1
MaxCategoryRows == 2
MaxPayeeRows == 1
MaxTransactionRows == 1
MaxListed == 2

NULL == 0
NULLS == "<null>"
NONE == [op |-> "none"]

(***************************************************************************)
(* Generic helpers.                                                        *)
(***************************************************************************)
RECURSIVE SumOver(_, _)
SumOver(S, f) ==
    IF S = {} THEN 0
    ELSE LET x == CHOOSE y \in S : TRUE IN f[x] + SumOver(S \ {x}, f)

Range(s) == {s[i] : i \in DOMAIN s}

\* SQL "=" : never true when an operand is NULL.
SqlEq(a, b) == a # NULL /\ b # NULL /\ a = b

\* SQL SUM(col) over a set of rows: NULL over no rows.
SqlSum(S, f) == IF S = {} THEN << >> ELSE <<SumOver(S, f)>>

\* SQL COALESCE(x, d).
Coalesce(x, d) == IF x = << >> THEN d ELSE x[1]

\* Python: float(v) if v is not None else 0.0
FloatOrZero(x) == IF x = << >> THEN 0 ELSE x[1]

(***************************************************************************)
(* Calendar of the year 2025.                                              *)
(***************************************************************************)
MonthLengths == <<31, 28, 31, 30, 31, 30, 31, 31, 30, 31, 30, 31>>

RECURSIVE MonthOf(_, _)
MonthOf(doy, m) ==
    IF doy <= MonthLengths[m] THEN <<m, doy>>
    ELSE MonthOf(doy - MonthLengths[m], m + 1)

\* day of the year -> <<year, month, day>>
Civil(doy) == <<2025>> \o MonthOf(doy, 1)

\* date.weekday(): Monday = 0; 2025-01-01 is a Wednesday.
Weekday(doy) == (doy + 1) % 7

DateTruncMut(grain, doy) ==
    CASE grain = "day" -> doy
      [] grain = "week" -> doy - ((Weekday(doy) + 1) % 7)
      [] OTHER -> doy - Civil(doy)[3] + 1

\* func.date(d), date_trunc('week', d), date_trunc('month', d)
DateTrunc(grain, doy) ==
    CASE grain = "day" -> doy
      [] grain = "week" -> doy - Weekday(doy)
      [] OTHER -> doy - Civil(doy)[3] + 1

Digits == <<"0", "1", "2", "3", "4", "5", "6", "7", "8", "9">>
Digit(n) == Digits[n + 1]

\* date.isoformat(): YYYY-MM-DD as a sequence of characters
IsoFormat(doy) ==
    LET c == Civil(doy) IN
    << Digit(c[1] \div 1000), Digit((c[1] \div 100) % 10),
       Digit((c[1] \div 10) % 10), Digit(c[1] % 10), "-",
       Digit(c[2] \div 10), Digit(c[2] % 10), "-",
       Digit(c[3] \div 10), Digit(c[3] % 10) >>

(***************************************************************************)
(* Value domains the requests and rows are drawn from.                     *)
(***************************************************************************)
AccountIds == 1..NumAccounts
CategoryIds == 1..NumCategories
PayeeIds == 1..NumPayees
TxnIds == 1..MaxTxn

\* 2025-02-02 (Sun), 2025-02-03 (Mon), 2025-01-31 (Fri), 2025-02-10 (Mon)
DateList == <<33, 34, 31, 41>>
DateOf(k) == DateList[k]
Dates == {DateOf(k) : k \in 1..NumDates}

\* func.current_date(): the day the store is at
CurrentDate == DateOf(1)

Amounts == {10 + 20 * k : k \in 1..NumAmounts}

TxnTypes == {"income", "expense", "transfer"}
ApiTxnTypes == {"income", "expense"}

AccountNames == <<"A", "B", "A", "C">>
CategoryNames == <<"Food", "Food", "Rent">>
PayeeNames == <<"Shop", "Shop", "Cafe">>

Currencies == {"USD", "EUR"}
AccountTypeIds == {1}

\* Rows of the seeded store the analytics queries run against.
Account(i) ==
    [account_type_id |-> 1, account_name |-> AccountNames[i],
     currency_code |-> "USD", opening_balance |-> 0, current_balance |-> 0,
     opening_balance_date |-> CurrentDate, notes |-> NULLS]
Category(i) ==
    [category_name |-> CategoryNames[i], category_type |-> "expense",
     category_group |-> NULLS, is_active |-> "true"]
Payee(i) ==
    [payee_name |-> PayeeNames[i], default_category_id |-> NULL,
     notes |-> NULLS, is_active |-> "true"]

\* Transaction rows: the columns the queries read vary, the others are fixed.
TxnRows ==
    {[account_id |-> a, transaction_type |-> ty, amount |-> m,
      currency_code |-> "USD", base_amount |-> m, transaction_date |-> d,
      status |-> "cleared", payee_id |-> p, category_id |-> c] :
        a \in AccountIds, ty \in TxnTypes, m \in Amounts, d \in Dates,
        p \in PayeeIds \cup {NULL}, c \in CategoryIds \cup {NULL}}

(***************************************************************************)
(* services/analytics_service.py                                           *)
(***************************************************************************)

DateFilterMut(t, start_date, end_date) ==
    /\ (start_date # NULL => t.transaction_date >= start_date)
    /\ (end_date # NULL => t.transaction_date < end_date)

\* The filters every analytics query applies to the transactions table:
\* never a transfer row, and one condition per filter that is not None.
DateFilter(t, start_date, end_date) ==
    /\ (start_date # NULL => t.transaction_date >= start_date)
    /\ (end_date # NULL => t.transaction_date <= end_date)

TypeFilter(t, transaction_type) ==
    transaction_type # NULLS => t.transaction_type = transaction_type

IdFilter(col, id) == id # NULL => SqlEq(col, id)

NotTransferMut(t) == TRUE

NotTransfer(t) == t.transaction_type # "transfer"

\* get_summary: (float(total), count)
SummaryRows(txns, p) ==
    {i \in DOMAIN txns :
        /\ NotTransfer(txns[i])
        /\ DateFilter(txns[i], p.start_date, p.end_date)
        /\ TypeFilter(txns[i], p.transaction_type)
        /\ IdFilter(txns[i].category_id, p.category_id)
        /\ IdFilter(txns[i].account_id, p.account_id)
        /\ IdFilter(txns[i].payee_id, p.payee_id)}

get_summary(txns, p) ==
    LET rows == SummaryRows(txns, p)
        total == Coalesce(SqlSum(rows, [i \in rows |-> txns[i].base_amount]), 0)
    IN  [total |-> total, count |-> Cardinality(rows)]

\* get_breakdown: the dimension's table, key column and name column
DimensionTable(dimension, accts, cats, pays) ==
    CASE dimension = "category" -> [i \in DOMAIN cats |-> cats[i].category_name]
      [] dimension = "payee" -> [i \in DOMAIN pays |-> pays[i].payee_name]
      [] OTHER -> [i \in DOMAIN accts |-> accts[i].account_name]

\* a LEFT JOIN that files the rows without a category or a payee under the
\* first row of the dimension's table
DimensionKeyMut(dimension, t) ==
    CASE dimension = "category" ->
            IF t.category_id = NULL THEN 1 ELSE t.category_id
      [] dimension = "payee" -> IF t.payee_id = NULL THEN 1 ELSE t.payee_id
      [] OTHER -> t.account_id

DimensionKey(dimension, t) ==
    CASE dimension = "category" -> t.category_id
      [] dimension = "payee" -> t.payee_id
      [] OTHER -> t.account_id

BreakdownRowsMut(txns, names, p) ==
    {i \in DOMAIN txns :
        /\ \E k \in DOMAIN names : SqlEq(DimensionKey(p.dimension, txns[i]), k)
        /\ NotTransfer(txns[i])
        /\ DateFilter(txns[i], p.start_date, p.end_date)
        /\ TypeFilter(txns[i], p.transaction_type)
        /\ IdFilter(txns[i].account_id, p.account_id)}

\* rows of transactions JOIN dimension_table ON key = fk, after the filters
BreakdownRows(txns, names, p) ==
    {i \in DOMAIN txns :
        /\ \E k \in DOMAIN names : SqlEq(DimensionKey(p.dimension, txns[i]), k)
        /\ NotTransfer(txns[i])
        /\ DateFilter(txns[i], p.start_date, p.end_date)
        /\ TypeFilter(txns[i], p.transaction_type)
        /\ (p.dimension # "account" => IdFilter(txns[i].account_id, p.account_id))}

\* SUM(base_amount) or COUNT(transaction_id) of one group
Metric(metric, txns, rows) ==
    IF metric = "sum"
    THEN SqlSum(rows, [i \in rows |-> txns[i].base_amount])
    ELSE <<Cardinality(rows)>>

\* GROUP BY name: label -> metric
BreakdownGroups(txns, names, p) ==
    LET rows == BreakdownRows(txns, names, p)
        label(i) == names[DimensionKey(p.dimension, txns[i])]
        labels == {label(i) : i \in rows}
    IN  [l \in labels |-> Metric(p.metric, txns, {i \in rows : label(i) = l})]

OrderingsMut(key, descending) ==
    {s \in [1..Cardinality(DOMAIN key) -> DOMAIN key] :
        /\ \A i, j \in DOMAIN s : i # j => s[i] # s[j]
        /\ \A i, j \in DOMAIN s : i < j => key[s[i]] <= key[s[j]]}

\* every order of the rows (the domain of key) that ORDER BY key allows,
\* descending or ascending; rows whose sort keys are equal come in any order
Orderings(key, descending) ==
    {s \in [1..Cardinality(DOMAIN key) -> DOMAIN key] :
        /\ \A i, j \in DOMAIN s : i # j => s[i] # s[j]
        /\ \A i, j \in DOMAIN s : i < j =>
              IF descending THEN key[s[i]] >= key[s[j]]
              ELSE key[s[i]] <= key[s[j]]}

\* get_breakdown: the (labels, values) results the query can return
get_breakdown(accts, cats, pays, txns, p) ==
    LET names == DimensionTable(p.dimension, accts, cats, pays)
        g == BreakdownGroups(txns, names, p)
        key == [l \in DOMAIN g |-> Coalesce(g[l], 0)]
    IN  {[labels |-> s, values |-> [i \in DOMAIN s |-> FloatOrZero(g[s[i]])]] :
            s \in Orderings(key, TRUE)}

\* get_trend without its category filter
TrendRowsMut(txns, p) ==
    {i \in DOMAIN txns :
        /\ NotTransfer(txns[i])
        /\ DateFilter(txns[i], p.start_date, p.end_date)
        /\ TypeFilter(txns[i], p.transaction_type)
        /\ IdFilter(txns[i].account_id, p.account_id)}

\* get_trend
TrendRows(txns, p) ==
    {i \in DOMAIN txns :
        /\ NotTransfer(txns[i])
        /\ DateFilter(txns[i], p.start_date, p.end_date)
        /\ TypeFilter(txns[i], p.transaction_type)
        /\ IdFilter(txns[i].category_id, p.category_id)
        /\ IdFilter(txns[i].account_id, p.account_id)}

TrendGroups(txns, p) ==
    LET rows == TrendRows(txns, p)
        period(i) == DateTrunc(p.time_grain, txns[i].transaction_date)
        periods == {period(i) : i \in rows}
    IN  [d \in periods |->
            LET grp == {i \in rows : period(i) = d}
            IN  SqlSum(grp, [i \in grp |-> txns[i].base_amount])]

get_trend(txns, p) ==
    LET g == TrendGroups(txns, p)
        key == [d \in DOMAIN g |-> d]
    IN  {[dates |-> [i \in DOMAIN s |-> IsoFormat(s[i])],
          values |-> [i \in DOMAIN s |-> FloatOrZero(g[s[i]])]] :
            s \in {SelectSeq(o, LAMBDA d : d # NULL) :
                      o \in Orderings(key, FALSE)}}

(***************************************************************************)
(* Analytics requests (routers/analytics.py).  Query parameters a handler  *)
(* does not declare are dropped before the service is called.              *)
(***************************************************************************)
StartDates == {NULL, DateOf(2)}
EndDates == {NULL, DateOf(1)}
FilterTypes == {NULLS} \cup ApiTxnTypes
FilterIds == {NULL, 1}

SummaryRequests ==
    [op : {"summary"}, start_date : StartDates, end_date : EndDates,
     transaction_type : FilterTypes, category_id : FilterIds,
     account_id : FilterIds, payee_id : FilterIds]

\* The queries never read transaction_id, so the tables of the seeded store
\* are drawn up to the order of their rows: rows in ascending TxnRank.
TypeRank(ty) == CASE ty = "expense" -> 0 [] ty = "income" -> 1 [] OTHER -> 2

TxnRank(r) ==
    ((((TypeRank(r.transaction_type) * 10 + r.account_id) * 10
        + r.category_id) * 10 + r.payee_id) * 100
        + r.base_amount) * 400 + r.transaction_date

SeededTransactions ==
    UNION {{t \in [1..n -> TxnRows] :
               \A i, j \in 1..n : i < j => TxnRank(t[i]) <= TxnRank(t[j])} :
           n \in 0..MaxTxn}

AInit ==
    /\ transactions \in SeededTransactions
    /\ accounts = [i \in AccountIds |-> Account(i)]
    /\ categories = [i \in CategoryIds |-> Category(i)]
    /\ payees = [i \in PayeeIds |-> Payee(i)]
    /\ sequences = [accounts |-> NumAccounts + 1,
                    categories |-> NumCategories + 1,
                    payees |-> NumPayees + 1, transactions |-> MaxTxn + 1]
    /\ request = NONE
    /\ response = NONE
    /\ queried = FALSE
    /\ sessions = << >>

BreakdownRequests ==
    [op : {"breakdown"}, dimension : {"category", "payee", "account"},
     metric : {"sum", "count"}, start_date : StartDates,
     end_date : EndDates, transaction_type : FilterTypes,
     account_id : FilterIds, category_id : FilterIds]

TrendRequests ==
    [op : {"trend"}, time_grain : {"day", "week", "month"},
     start_date : StartDates, end_date : EndDates,
     transaction_type : FilterTypes, category_id : FilterIds,
     account_id : FilterIds]

\* routers/analytics.py: each handler passes the parameters it declares to
\* the service and wraps the result.
SummaryHandler(q) ==
    /\ request' = q
    /\ response' = [status |-> 200, body |-> get_summary(transactions, q)]
    /\ queried' = TRUE
    /\ UNCHANGED <<store, sequences, sessions>>

BreakdownHandler(q) ==
    /\ request' = q
    /\ \E r \in get_breakdown(accounts, categories, payees, transactions,
                  [dimension |-> q.dimension, metric |-> q.metric,
                   start_date |-> q.start_date, end_date |-> q.end_date,
                   transaction_type |-> q.transaction_type,
                   account_id |-> q.account_id]) :
          response' = [status |-> 200, body |-> r]
    /\ queried' = TRUE
    /\ UNCHANGED <<store, sequences, sessions>>

TrendHandler(q) ==
    /\ request' = q
    /\ \E r \in get_trend(transactions, q) :
          response' = [status |-> 200, body |-> r]
    /\ queried' = TRUE
    /\ UNCHANGED <<store, sequences, sessions>>

GetSummary == request = NONE /\ \E q \in SummaryRequests : SummaryHandler(q)

GetBreakdown == request = NONE /\ \E q \in BreakdownRequests : BreakdownHandler(q)

GetTrend == request = NONE /\ \E q \in TrendRequests : TrendHandler(q)

\* the client sends the request it has just sent once more
Repeat ==
    /\ request # NONE
    /\ CASE request.op = "summary" -> SummaryHandler(request)
         [] request.op = "breakdown" -> BreakdownHandler(request)
         [] OTHER -> TrendHandler(request)

ANext == GetSummary \/ GetBreakdown \/ GetTrend

SpecAnalytics == AInit /\ [][ANext]_vars

RNext == ANext \/ Repeat

SpecRepeat == AInit /\ [][RNext]_vars

(***************************************************************************)
(* The store as the services see it through a session, and the            *)
(* constraints the mapped tables declare (models/*.py).                    *)
(***************************************************************************)
Db ==
    [accounts |-> accounts, categories |-> categories, payees |-> payees,
     transactions |-> transactions]

IntFields ==
    {"account_type_id", "opening_balance", "current_balance",
     "default_category_id", "account_id", "amount", "base_amount",
     "transaction_date", "payee_id", "category_id", "opening_balance_date"}

\* Python None / SQL NULL in the field f
NullOf(f) == IF f \in IntFields THEN NULL ELSE NULLS

\* columns declared nullable=False, per table
NotNullColumns ==
    [accounts |-> {"account_type_id", "account_name", "currency_code",
                   "opening_balance", "current_balance",
                   "opening_balance_date"},
     categories |-> {"category_name", "category_type", "is_active"},
     payees |-> {"payee_name", "is_active"},
     transactions |-> {"account_id", "transaction_type", "amount",
                       "currency_code", "base_amount", "transaction_date",
                       "status"}]

\* a money column holds NULL only as the value 0 of a row never written, so
\* the balances (0 by default) are not NULL
HoldsNull(f, v) ==
    f \notin {"opening_balance", "current_balance"} /\ v = NullOf(f)

NotNullViolated(db) ==
    \E t \in DOMAIN NotNullColumns : \E i \in DOMAIN db[t] :
        \E f \in NotNullColumns[t] : HoldsNull(f, db[t][i][f])

\* ForeignKey(...) columns: a value that is not NULL names a row of the
\* referenced table
ForeignKeyViolated(db) ==
    \/ \E i \in DOMAIN db.accounts :
          \/ /\ db.accounts[i].account_type_id # NULL
             /\ db.accounts[i].account_type_id \notin AccountTypeIds
          \/ /\ db.accounts[i].currency_code # NULLS
             /\ db.accounts[i].currency_code \notin Currencies
    \/ \E i \in DOMAIN db.payees :
          /\ db.payees[i].default_category_id # NULL
          /\ db.payees[i].default_category_id \notin DOMAIN db.categories
    \/ \E i \in DOMAIN db.transactions :
          LET t == db.transactions[i] IN
          \/ t.account_id # NULL /\ t.account_id \notin DOMAIN db.accounts
          \/ t.category_id # NULL /\ t.category_id \notin DOMAIN db.categories
          \/ t.payee_id # NULL /\ t.payee_id \notin DOMAIN db.payees
          \/ t.currency_code # NULLS /\ t.currency_code \notin Currencies

\* db.commit() of the pending state: the IntegrityError the database raises
\* ("" when it accepts the write).  NOT NULL is checked as each row is
\* written, a foreign key when the statement ends, so a write that breaks
\* both is reported as the NOT NULL violation.
IntegrityError(pending) ==
    CASE NotNullViolated(pending) -> "NotNullViolation"
      [] ForeignKeyViolated(pending) -> "ForeignKeyViolation"
      [] OTHER -> ""

\* "foreign key" in str(e).lower()
MentionsForeignKey(e) == e = "ForeignKeyViolation"

(***************************************************************************)
(* Request schemas (schemas/*.py): the default of each field.              *)
(***************************************************************************)
AccountCreate ==
    [account_type_id |-> NULL, account_name |-> NULLS,
     currency_code |-> "USD", opening_balance |-> 0,
     opening_balance_date |-> NULL, notes |-> NULLS]
\* a schema that also declares the two opening fields
AccountUpdateMut ==
    [account_type_id |-> NULL, account_name |-> NULLS,
     currency_code |-> NULLS, notes |-> NULLS, opening_balance |-> NULL,
     opening_balance_date |-> NULL]
AccountUpdate ==
    [account_type_id |-> NULL, account_name |-> NULLS,
     currency_code |-> NULLS, notes |-> NULLS]
CategoryCreate ==
    [category_name |-> NULLS, category_type |-> NULLS,
     category_group |-> NULLS, is_active |-> "true"]
CategoryUpdate ==
    [category_name |-> NULLS, category_type |-> NULLS,
     category_group |-> NULLS, is_active |-> NULLS]
PayeeCreate ==
    [payee_name |-> NULLS, default_category_id |-> NULL, notes |-> NULLS,
     is_active |-> "true"]
PayeeUpdate ==
    [payee_name |-> NULLS, default_category_id |-> NULL, notes |-> NULLS,
     is_active |-> NULLS]
TransactionUpdate ==
    [account_id |-> NULL, transaction_type |-> NULLS, amount |-> NULL,
     currency_code |-> NULLS, base_amount |-> NULL,
     transaction_date |-> NULL, status |-> NULLS, payee_id |-> NULL,
     category_id |-> NULL]
TransactionCreate ==
    [account_id |-> NULL, transaction_type |-> NULLS, amount |-> NULL,
     currency_code |-> NULLS, base_amount |-> NULL,
     transaction_date |-> NULL, status |-> "cleared", payee_id |-> NULL,
     category_id |-> NULL]

\* the fields of a TransactionCreate body that fail validation when they
\* hold something else than a negative number
TransactionCreateErrorsMut(data) ==
    {f \in {"amount", "base_amount"} : data[f] = << >> \/ data[f][1] = 0}
    \cup {f \in {"transaction_type"} :
              data[f] = << >> \/ data[f][1] \notin {"income", "expense"}}

\* a transaction_type that admits every string
TransactionCreateErrorsTransfer(data) ==
    {f \in {"amount", "base_amount"} : data[f] = << >> \/ data[f][1] <= 0}
    \cup {f \in {"transaction_type"} : data[f] = << >>}

\* TransactionCreate(**body): the fields that fail validation.  amount and
\* base_amount are required and Field(gt=0), transaction_type is required
\* and Literal["income", "expense"].
TransactionCreateErrors(data) ==
    {f \in {"amount", "base_amount"} : data[f] = << >> \/ data[f][1] <= 0}
    \cup {f \in {"transaction_type"} :
              data[f] = << >> \/ data[f][1] \notin {"income", "expense"}}

\* TransactionUpdate(**body): the fields that fail validation.  Every field
\* is Optional; amount and base_amount are Field(gt=0) and transaction_type
\* is Literal["income", "expense"] when they are not None (None is NULL,
\* the number 0, for the amounts).
TransactionUpdateErrors(data) ==
    {f \in {"amount", "base_amount"} : data[f] # << >> /\ data[f][1] < 0}
    \cup {f \in {"transaction_type"} :
              data[f] # << >>
                  /\ data[f][1] \notin {NULLS, "income", "expense"}}

model_dumpMut(schema, data, exclude_unset) ==
    [f \in DOMAIN schema |->
        IF data[f] = << >> THEN schema[f] ELSE data[f][1]]

model_dumpNotNone(schema, data, exclude_unset) ==
    [f \in {g \in DOMAIN schema :
                IF exclude_unset THEN data[g] \notin {<< >>, <<NullOf(g)>>}
                ELSE TRUE} |->
        IF data[f] = << >> THEN schema[f] ELSE data[f][1]]

\* BaseModel.model_dump(exclude_unset=...): the fields the client set, and
\* with exclude_unset=False every other field too, at its default
model_dump(schema, data, exclude_unset) ==
    [f \in {g \in DOMAIN schema : ~exclude_unset \/ data[g] # << >>} |->
        IF data[f] = << >> THEN schema[f] ELSE data[f][1]]

(***************************************************************************)
(* Mapped classes (models/*.py): the value a column gets on INSERT when    *)
(* the object holds None for it (its default, else NULL).                  *)
(***************************************************************************)
AccountColumns ==
    [account_type_id |-> NULL, account_name |-> NULLS,
     currency_code |-> "USD", opening_balance |-> 0, current_balance |-> 0,
     opening_balance_date |-> CurrentDate, notes |-> NULLS]
CategoryColumns ==
    [category_name |-> NULLS, category_type |-> NULLS,
     category_group |-> NULLS, is_active |-> "true"]
PayeeColumns ==
    [payee_name |-> NULLS, default_category_id |-> NULL, notes |-> NULLS,
     is_active |-> "true"]
TransactionColumns ==
    [account_id |-> NULL, transaction_type |-> NULLS, amount |-> NULL,
     currency_code |-> NULLS, base_amount |-> NULL,
     transaction_date |-> NULL, status |-> "cleared", payee_id |-> NULL,
     category_id |-> NULL]

\* Model(**kwargs) followed by the INSERT of the flush
NewRow(columns, kwargs) ==
    [f \in DOMAIN columns |->
        IF f \in DOMAIN kwargs /\ kwargs[f] # NullOf(f) THEN kwargs[f]
        ELSE columns[f]]

\* for field, value in update_data.items(): setattr(row, field, value)
SetAttrs(row, update_data) ==
    [f \in DOMAIN row |->
        IF f \in DOMAIN update_data THEN update_data[f] ELSE row[f]]

\* table without the row id
Without(table, id) == [i \in DOMAIN table \ {id} |-> table[i]]

\* table with the row id set to row
With(table, id, row) ==
    [i \in DOMAIN table \cup {id} |-> IF i = id THEN row ELSE table[i]]

(***************************************************************************)
(* services/*_service.py.  A service call returns                          *)
(*   raised : the IntegrityError of its commit, "" when none was raised;   *)
(*   value  : << >> for None / False, <<id>> for the row / True;           *)
(*   db     : the committed store after the call (a commit that raises     *)
(*            writes nothing, and the handler's db.rollback() drops the    *)
(*            pending changes).                                            *)
(***************************************************************************)
\* the amount a transaction moves its account's balance by: income adds,
\* expense subtracts (no rule is stated for a transfer, and no write of the
\* services produces one)
Signed(t) ==
    CASE t.transaction_type = "income" -> t.amount
      [] t.transaction_type = "expense" -> 0 - t.amount
      [] OTHER -> 0

\* the sum of the signed amounts of the transactions of account a
Movement(txns, a) ==
    LET on == {i \in DOMAIN txns : txns[i].account_id = a}
    IN  SumOver(on, [i \in on |-> Signed(txns[i])])

\* The database's balance triggers, run by the statements of a commit: a
\* new account starts with current_balance = opening_balance, and every
\* insert, update or delete of a transaction moves the balance of the
\* accounts it touches by the change of their signed amounts.
Triggers(db, pending) ==
    [pending EXCEPT !.accounts =
        [a \in DOMAIN pending.accounts |->
            [pending.accounts[a] EXCEPT !.current_balance =
                IF a \notin DOMAIN db.accounts
                THEN pending.accounts[a].opening_balance
                ELSE @ + Movement(pending.transactions, a)
                       - Movement(db.transactions, a)]]]

Commit(db, pending, id) ==
    LET e == IntegrityError(pending) IN
    IF e # "" THEN [raised |-> e, value |-> << >>, db |-> db]
    ELSE [raised |-> "", value |-> <<id>>, db |-> Triggers(db, pending)]

Missing(db) == [raised |-> "", value |-> << >>, db |-> db]

\* db.query(Model).filter(Model.id == id).first()
First(table, id) == IF id \in DOMAIN table THEN <<table[id]>> ELSE << >>

get_account(db, account_id) == First(db.accounts, account_id)
get_category(db, category_id) == First(db.categories, category_id)
get_payee(db, payee_id) == First(db.payees, payee_id)
get_transaction(db, transaction_id) == First(db.transactions, transaction_id)

\* the id is the one the table's sequence hands out
create_account(db, id, account_data) ==
    LET account == NewRow(AccountColumns,
                          model_dump(AccountCreate, account_data, TRUE))
    IN  Commit(db, [db EXCEPT !.accounts = With(@, id, account)], id)

create_category(db, id, category_data) ==
    LET category == NewRow(CategoryColumns,
                           model_dump(CategoryCreate, category_data, TRUE))
    IN  Commit(db, [db EXCEPT !.categories = With(@, id, category)], id)

create_payee(db, id, payee_data) ==
    LET payee == NewRow(PayeeColumns,
                        model_dump(PayeeCreate, payee_data, TRUE))
    IN  Commit(db, [db EXCEPT !.payees = With(@, id, payee)], id)

create_transaction(db, id, transaction_data) ==
    LET transaction ==
            NewRow(TransactionColumns,
                   model_dump(TransactionCreate, transaction_data, TRUE))
    IN  Commit(db, [db EXCEPT !.transactions = With(@, id, transaction)], id)

update_transaction(db, transaction_id, transaction_data, partial) ==
    LET transaction == get_transaction(db, transaction_id) IN
    IF transaction = << >> THEN Missing(db)
    ELSE LET update_data ==
                 model_dump(TransactionUpdate, transaction_data, partial)
             row == SetAttrs(transaction[1], update_data)
         IN  Commit(db,
                    [db EXCEPT !.transactions = With(@, transaction_id, row)],
                    transaction_id)

delete_transaction(db, transaction_id) ==
    IF get_transaction(db, transaction_id) = << >> THEN Missing(db)
    ELSE Commit(db, [db EXCEPT !.transactions = Without(@, transaction_id)],
                transaction_id)

update_account(db, account_id, account_data, partial) ==
    LET account == get_account(db, account_id) IN
    IF account = << >> THEN Missing(db)
    ELSE LET update_data == model_dump(AccountUpdate, account_data, partial)
             row == SetAttrs(account[1], update_data)
         IN  Commit(db, [db EXCEPT !.accounts = With(@, account_id, row)],
                    account_id)

update_category(db, category_id, category_data, partial) ==
    LET category == get_category(db, category_id) IN
    IF category = << >> THEN Missing(db)
    ELSE LET update_data == model_dump(CategoryUpdate, category_data, partial)
             row == SetAttrs(category[1], update_data)
         IN  Commit(db, [db EXCEPT !.categories = With(@, category_id, row)],
                    category_id)

update_payee(db, payee_id, payee_data, partial) ==
    LET payee == get_payee(db, payee_id) IN
    IF payee = << >> THEN Missing(db)
    ELSE LET update_data == model_dump(PayeeUpdate, payee_data, partial)
             row == SetAttrs(payee[1], update_data)
         IN  Commit(db, [db EXCEPT !.payees = With(@, payee_id, row)],
                    payee_id)

\* relationship("Transaction", back_populates=...) without a delete cascade:
\* when the parent is deleted the session first sets the foreign key column
\* of its transactions to NULL
Orphaned(txns, column, id) ==
    [i \in DOMAIN txns |->
        IF txns[i][column] = id THEN [txns[i] EXCEPT ![column] = NULL]
        ELSE txns[i]]

delete_account(db, account_id) ==
    IF get_account(db, account_id) = << >> THEN Missing(db)
    ELSE Commit(db,
                [db EXCEPT !.accounts = Without(@, account_id),
                           !.transactions = Orphaned(@, "account_id", account_id)],
                account_id)

\* commits without the db.delete(category)
delete_categoryMut(db, category_id) ==
    IF get_category(db, category_id) = << >> THEN Missing(db)
    ELSE Commit(db, db, category_id)

delete_category(db, category_id) ==
    IF get_category(db, category_id) = << >> THEN Missing(db)
    ELSE Commit(db,
                [db EXCEPT !.categories = Without(@, category_id),
                           !.transactions = Orphaned(@, "category_id", category_id)],
                category_id)

delete_payee(db, payee_id) ==
    IF get_payee(db, payee_id) = << >> THEN Missing(db)
    ELSE Commit(db,
                [db EXCEPT !.payees = Without(@, payee_id),
                           !.transactions = Orphaned(@, "payee_id", payee_id)],
                payee_id)

(***************************************************************************)
(* routers/*.py.  A handler maps the outcome of its service call to the    *)
(* response; its result is the store it leaves and that response.          *)
(* details is the "reason" of the error body: a text of the handler, or    *)
(* str(e), the database's own message (here the error's name).             *)
(***************************************************************************)
\* raise HTTPException(status_code=status,
\*     detail={"error": {"code": code, "message": message,
\*                       "details": {"reason": reason}}})
HttpError(status, code, message, reason) ==
    [status |-> status, raised |-> "HTTPException", code |-> code,
     message |-> message, details |-> reason, body |-> << >>]

\* return body
Ok(status, body) ==
    [status |-> status, raised |-> "", code |-> "", message |-> "",
     details |-> "", body |-> body]

\* the 422 FastAPI answers when a body or a query parameter fails the
\* validation its handler's signature declares; the handler does not run
RequestValidationError(errors) ==
    [status |-> 422, raised |-> "RequestValidationError", code |-> "",
     message |-> "", details |-> "", body |-> <<errors>>]

\* The JSON body sent for a response.  The application registers no
\* exception handler, so an HTTPException is sent as {"detail": exc.detail}
\* and a request validation error as {"detail": exc.errors()}.
JsonBody(r) ==
    CASE r.raised = "HTTPException" ->
            [detail |-> [error |-> [code |-> r.code, message |-> r.message,
                                    details |-> r.details]]]
      [] r.raised = "RequestValidationError" -> [detail |-> r.body]
      [] r.status = 500 -> [text |-> "Internal Server Error"]
      [] OTHER -> [data |-> r.body]

\* the row as the response model serialises it
RowBody(table, id) == <<[id |-> id, row |-> table[id]]>>

NotFound(db, message) ==
    [db |-> db, response |-> HttpError(404, "NOT_FOUND", message, "")]

\* answers with the account as it was built, not as the store holds it
router_create_accountMut(db, id, account_data) ==
    LET r == create_account(db, id, account_data)
        account == NewRow(AccountColumns,
                          model_dump(AccountCreate, account_data, TRUE))
    IN  [db |-> r.db,
         response |-> Ok(201, <<[id |-> id, row |-> account]>>)]

\* accounts.py
router_create_account(db, id, account_data) ==
    LET r == create_account(db, id, account_data) IN
    CASE r.raised = "" ->
            [db |-> r.db, response |-> Ok(201, RowBody(r.db.accounts, id))]
      [] MentionsForeignKey(r.raised) ->
            [db |-> r.db,
             response |-> HttpError(422, "VALIDATION_ERROR",
                 "Invalid foreign key reference",
                 "account_type_id or currency_code does not exist")]
      [] OTHER ->
            [db |-> r.db,
             response |-> HttpError(400, "BAD_REQUEST",
                 "Failed to create account", r.raised)]

router_get_account(db, account_id) ==
    IF get_account(db, account_id) = << >>
    THEN NotFound(db, "Account not found")
    ELSE [db |-> db, response |-> Ok(200, RowBody(db.accounts, account_id))]

\* the response of PUT and PATCH /accounts/{id} to the outcome r
AccountUpdated(r, account_id) ==
    CASE r.raised = "" /\ r.value = << >> ->
            NotFound(r.db, "Account not found")
      [] r.raised = "" ->
            [db |-> r.db,
             response |-> Ok(200, RowBody(r.db.accounts, account_id))]
      [] MentionsForeignKey(r.raised) ->
            [db |-> r.db,
             response |-> HttpError(422, "VALIDATION_ERROR",
                 "Invalid foreign key reference",
                 "account_type_id or currency_code does not exist")]
      [] OTHER ->
            [db |-> r.db,
             response |-> HttpError(400, "BAD_REQUEST",
                 "Failed to update account", "")]

update_account_full(db, account_id, account_data) ==
    AccountUpdated(update_account(db, account_id, account_data, TRUE),
                   account_id)

update_account_partial(db, account_id, account_data) ==
    AccountUpdated(update_account(db, account_id, account_data, TRUE),
                   account_id)

router_delete_account(db, account_id) ==
    LET r == delete_account(db, account_id) IN
    CASE r.raised = "" /\ r.value = << >> ->
            NotFound(r.db, "Account not found")
      [] r.raised = "" -> [db |-> r.db, response |-> Ok(204, << >>)]
      [] OTHER ->
            [db |-> r.db,
             response |-> HttpError(422, "VALIDATION_ERROR",
                 "Cannot delete account with existing transactions",
                 "Foreign key constraint violation")]

\* categories.py
router_create_category(db, id, category_data) ==
    LET r == create_category(db, id, category_data) IN
    IF r.raised = ""
    THEN [db |-> r.db, response |-> Ok(201, RowBody(r.db.categories, id))]
    ELSE [db |-> r.db,
          response |-> HttpError(422, "VALIDATION_ERROR",
              "Failed to create category",
              "Possible duplicate category name or constraint violation")]

router_get_category(db, category_id) ==
    IF get_category(db, category_id) = << >>
    THEN NotFound(db, "Category not found")
    ELSE [db |-> db,
          response |-> Ok(200, RowBody(db.categories, category_id))]

CategoryUpdated(r, category_id) ==
    CASE r.raised = "" /\ r.value = << >> ->
            NotFound(r.db, "Category not found")
      [] r.raised = "" ->
            [db |-> r.db,
             response |-> Ok(200, RowBody(r.db.categories, category_id))]
      [] OTHER ->
            [db |-> r.db,
             response |-> HttpError(422, "VALIDATION_ERROR",
                 "Failed to update category", r.raised)]

update_category_put(db, category_id, category_data) ==
    CategoryUpdated(update_category(db, category_id, category_data, FALSE),
                    category_id)

update_category_patch(db, category_id, category_data) ==
    CategoryUpdated(update_category(db, category_id, category_data, TRUE),
                    category_id)

router_delete_category(db, category_id) ==
    LET r == delete_category(db, category_id) IN
    CASE r.raised = "" /\ r.value = << >> ->
            NotFound(r.db, "Category not found")
      [] r.raised = "" -> [db |-> r.db, response |-> Ok(204, << >>)]
      [] OTHER ->
            [db |-> r.db,
             response |-> HttpError(409, "CONFLICT", "Cannot delete category",
                 "Category is referenced by existing transactions")]

\* payees.py
router_create_payee(db, id, payee_data) ==
    LET r == create_payee(db, id, payee_data) IN
    CASE r.raised = "" ->
            [db |-> r.db, response |-> Ok(201, RowBody(r.db.payees, id))]
      [] MentionsForeignKey(r.raised) ->
            [db |-> r.db,
             response |-> HttpError(422, "VALIDATION_ERROR",
                 "Invalid default_category_id", "Category does not exist")]
      [] OTHER ->
            [db |-> r.db,
             response |-> HttpError(422, "VALIDATION_ERROR",
                 "Failed to create payee",
                 "Possible duplicate payee name or constraint violation")]

router_get_payee(db, payee_id) ==
    IF get_payee(db, payee_id) = << >>
    THEN NotFound(db, "Payee not found")
    ELSE [db |-> db, response |-> Ok(200, RowBody(db.payees, payee_id))]

PayeeUpdated(r, payee_id) ==
    CASE r.raised = "" /\ r.value = << >> ->
            NotFound(r.db, "Payee not found")
      [] r.raised = "" ->
            [db |-> r.db, response |-> Ok(200, RowBody(r.db.payees, payee_id))]
      [] MentionsForeignKey(r.raised) ->
            [db |-> r.db,
             response |-> HttpError(422, "VALIDATION_ERROR",
                 "Invalid default_category_id", "Category does not exist")]
      [] OTHER ->
            [db |-> r.db,
             response |-> HttpError(422, "VALIDATION_ERROR",
                 "Failed to update payee", r.raised)]

update_payee_put(db, payee_id, payee_data) ==
    PayeeUpdated(update_payee(db, payee_id, payee_data, FALSE), payee_id)

update_payee_patch(db, payee_id, payee_data) ==
    PayeeUpdated(update_payee(db, payee_id, payee_data, TRUE), payee_id)

router_delete_payee(db, payee_id) ==
    LET r == delete_payee(db, payee_id) IN
    CASE r.raised = "" /\ r.value = << >> ->
            NotFound(r.db, "Payee not found")
      [] r.raised = "" -> [db |-> r.db, response |-> Ok(204, << >>)]
      [] OTHER ->
            [db |-> r.db,
             response |-> HttpError(409, "CONFLICT", "Cannot delete payee",
                 "Payee is referenced by existing transactions")]

\* transactions.py
router_create_transaction(db, id, transaction_data) ==
    LET r == create_transaction(db, id, transaction_data) IN
    CASE r.raised = "" ->
            [db |-> r.db, response |-> Ok(201, RowBody(r.db.transactions, id))]
      [] MentionsForeignKey(r.raised) ->
            [db |-> r.db,
             response |-> HttpError(422, "VALIDATION_ERROR",
                 "Invalid foreign key reference",
                 "account_id, category_id, payee_id, or currency_code does not exist")]
      [] OTHER ->
            [db |-> r.db,
             response |-> HttpError(400, "BAD_REQUEST",
                 "Failed to create transaction", r.raised)]

router_get_transaction(db, transaction_id) ==
    IF get_transaction(db, transaction_id) = << >>
    THEN NotFound(db, "Transaction not found")
    ELSE [db |-> db,
          response |-> Ok(200, RowBody(db.transactions, transaction_id))]

(***************************************************************************)
(* Requests.  An id or a reference a request names is one of the ids the   *)
(* table can have handed out or the first one it cannot.                   *)
(***************************************************************************)
AccountKeys == 1..(MaxAccountRows + 1)
CategoryKeys == 1..(MaxCategoryRows + 1)
PayeeKeys == 1..(MaxPayeeRows + 1)
TransactionKeys == 1..(MaxTransactionRows + 1)

Refs(keys) == {<<k>> : k \in keys}

AccountCreateBodies ==
    [account_type_id : {<<1>>, <<2>>}, account_name : {<<"A">>},
     currency_code : {<< >>, <<"XXX">>}, opening_balance : {<< >>},
     opening_balance_date : {<< >>}, notes : {<< >>}]

AccountUpdateBodies ==
    [account_type_id : {<< >>, <<NULL>>, <<1>>, <<2>>},
     account_name : {<< >>, <<NULLS>>, <<"B">>}, currency_code : {<< >>},
     notes : {<< >>, <<"n">>}]

CategoryCreateBodies ==
    [category_name : {<<"Food">>}, category_type : {<<"expense">>},
     category_group : {<< >>, <<"G">>}, is_active : {<< >>}]

CategoryUpdateBodies ==
    [category_name : {<< >>, <<NULLS>>, <<"Rent">>},
     category_type : {<< >>, <<"expense">>},
     category_group : {<< >>, <<NULLS>>, <<"G">>},
     is_active : {<< >>, <<"true">>}]

PayeeCreateBodies ==
    [payee_name : {<<"Shop">>},
     default_category_id : {<< >>} \cup Refs(CategoryKeys),
     notes : {<< >>}, is_active : {<< >>}]

PayeeUpdateBodies ==
    [payee_name : {<< >>, <<NULLS>>, <<"Cafe">>},
     default_category_id : {<< >>, <<NULL>>} \cup Refs(CategoryKeys),
     notes : {<< >>}, is_active : {<< >>, <<"true">>}]

TransactionCreateBodies ==
    [account_id : Refs(AccountKeys), transaction_type : {<<"expense">>},
     amount : {<<30>>, <<0>>, <<-30>>}, currency_code : {<<"USD">>}, base_amount : {<<30>>},
     transaction_date : {<<DateOf(1)>>}, status : {<< >>},
     payee_id : {<< >>} \cup Refs(PayeeKeys),
     category_id : {<< >>} \cup Refs(CategoryKeys)]

Init ==
    /\ accounts = << >>
    /\ categories = << >>
    /\ payees = << >>
    /\ transactions = << >>
    /\ sequences = [accounts |-> 1, categories |-> 1, payees |-> 1,
                    transactions |-> 1]
    /\ request = NONE
    /\ response = NONE
    /\ queried = FALSE
    /\ sessions = << >>

\* the handler of the request q ran, called its service, which queried the
\* store, and ended with the outcome o
Serve(q, o) ==
    /\ request' = q
    /\ response' = o.response
    /\ queried' = TRUE
    /\ UNCHANGED sessions
    /\ accounts' = o.db.accounts
    /\ categories' = o.db.categories
    /\ payees' = o.db.payees
    /\ transactions' = o.db.transactions

\* an INSERT takes the next value of the table's sequence, kept or not
NextVal(table) == sequences' = [sequences EXCEPT ![table] = @ + 1]

Call(op, id, data) == [op |-> op, id |-> id, data |-> data]

\* the request q is answered before its handler runs
Reject(q, r) ==
    /\ request' = q
    /\ response' = r
    /\ queried' = FALSE
    /\ UNCHANGED <<store, sequences, sessions>>

CreateAccount ==
    /\ request = NONE /\ sequences.accounts <= MaxAccountRows
    /\ \E data \in AccountCreateBodies :
          Serve(Call("create_account", NULL, data),
                router_create_account(Db, sequences.accounts, data))
    /\ NextVal("accounts")

GetAccount ==
    /\ request = NONE
    /\ \E id \in AccountKeys :
          Serve(Call("get_account", id, << >>), router_get_account(Db, id))
    /\ UNCHANGED sequences

PutAccount ==
    /\ request = NONE
    /\ \E id \in AccountKeys, data \in AccountUpdateBodies :
          Serve(Call("update_account_full", id, data),
                update_account_full(Db, id, data))
    /\ UNCHANGED sequences

PatchAccount ==
    /\ request = NONE
    /\ \E id \in AccountKeys, data \in AccountUpdateBodies :
          Serve(Call("update_account_partial", id, data),
                update_account_partial(Db, id, data))
    /\ UNCHANGED sequences

DeleteAccount ==
    /\ request = NONE
    /\ \E id \in AccountKeys :
          Serve(Call("delete_account", id, << >>),
                router_delete_account(Db, id))
    /\ UNCHANGED sequences

CreateCategory ==
    /\ request = NONE /\ sequences.categories <= MaxCategoryRows
    /\ \E data \in CategoryCreateBodies :
          Serve(Call("create_category", NULL, data),
                router_create_category(Db, sequences.categories, data))
    /\ NextVal("categories")

GetCategory ==
    /\ request = NONE
    /\ \E id \in CategoryKeys :
          Serve(Call("get_category", id, << >>), router_get_category(Db, id))
    /\ UNCHANGED sequences

PutCategory ==
    /\ request = NONE
    /\ \E id \in CategoryKeys, data \in CategoryUpdateBodies :
          Serve(Call("update_category_put", id, data),
                update_category_put(Db, id, data))
    /\ UNCHANGED sequences

PatchCategory ==
    /\ request = NONE
    /\ \E id \in CategoryKeys, data \in CategoryUpdateBodies :
          Serve(Call("update_category_patch", id, data),
                update_category_patch(Db, id, data))
    /\ UNCHANGED sequences

DeleteCategory ==
    /\ request = NONE
    /\ \E id \in CategoryKeys :
          Serve(Call("delete_category", id, << >>),
                router_delete_category(Db, id))
    /\ UNCHANGED sequences

CreatePayee ==
    /\ request = NONE /\ sequences.payees <= MaxPayeeRows
    /\ \E data \in PayeeCreateBodies :
          Serve(Call("create_payee", NULL, data),
                router_create_payee(Db, sequences.payees, data))
    /\ NextVal("payees")

GetPayee ==
    /\ request = NONE
    /\ \E id \in PayeeKeys :
          Serve(Call("get_payee", id, << >>), router_get_payee(Db, id))
    /\ UNCHANGED sequences

PutPayee ==
    /\ request = NONE
    /\ \E id \in PayeeKeys, data \in PayeeUpdateBodies :
          Serve(Call("update_payee_put", id, data),
                update_payee_put(Db, id, data))
    /\ UNCHANGED sequences

PatchPayee ==
    /\ request = NONE
    /\ \E id \in PayeeKeys, data \in PayeeUpdateBodies :
          Serve(Call("update_payee_patch", id, data),
                update_payee_patch(Db, id, data))
    /\ UNCHANGED sequences

DeletePayee ==
    /\ request = NONE
    /\ \E id \in PayeeKeys :
          Serve(Call("delete_payee", id, << >>), router_delete_payee(Db, id))
    /\ UNCHANGED sequences

CreateTransaction ==
    /\ request = NONE /\ sequences.transactions <= MaxTransactionRows
    /\ \E data \in TransactionCreateBodies :
          LET q == Call("create_transaction", NULL, data)
              errors == TransactionCreateErrors(data)
          IN  IF errors # {}
              THEN Reject(q, RequestValidationError(errors))
              ELSE /\ Serve(q, router_create_transaction(
                                   Db, sequences.transactions, data))
                   /\ NextVal("transactions")

GetTransaction ==
    /\ request = NONE
    /\ \E id \in TransactionKeys :
          Serve(Call("get_transaction", id, << >>),
                router_get_transaction(Db, id))
    /\ UNCHANGED sequences

\* the response has been sent: the next request can be served
Complete ==
    /\ request # NONE
    /\ request' = NONE
    /\ response' = NONE
    /\ queried' = FALSE
    /\ UNCHANGED <<store, sequences, sessions>>

Next ==
    \/ CreateAccount \/ GetAccount \/ PutAccount \/ PatchAccount
    \/ DeleteAccount
    \/ CreateCategory \/ GetCategory \/ PutCategory \/ PatchCategory
    \/ DeleteCategory
    \/ CreatePayee \/ GetPayee \/ PutPayee \/ PatchPayee \/ DeletePayee
    \/ CreateTransaction \/ GetTransaction
    \/ Complete

Spec == Init /\ [][Next]_vars

(***************************************************************************)
(* Balances.  The same handlers over two accounts whose opening balances   *)
(* differ and over income and expense transactions, with request bodies    *)
(* that also name the balance fields, and the service calls that change or *)
(* remove a transaction (update_transaction and delete_transaction have no *)
(* route; they are called as the unit tests call them).                    *)
(***************************************************************************)
MaxBalanceAccounts == 2
MaxMovements == 2

BalanceCreateBodies ==
    [account_type_id : {<<1>>}, account_name : {<<"A">>},
     currency_code : {<< >>}, opening_balance : {<< >>, <<50>>},
     opening_balance_date : {<< >>, <<DateOf(2)>>},
     notes : {<< >>}, current_balance : {<< >>, <<70>>}]

BalanceUpdateBodies ==
    [account_type_id : {<< >>}, account_name : {<< >>, <<"B">>},
     currency_code : {<< >>}, notes : {<< >>},
     opening_balance : {<< >>, <<60>>},
     opening_balance_date : {<< >>, <<DateOf(3)>>},
     current_balance : {<< >>, <<70>>}]

MovementBodies ==
    [account_id : Refs(1..MaxBalanceAccounts),
     transaction_type : {<<"income">>, <<"expense">>},
     amount : {<<20>>, <<30>>}, currency_code : {<<"USD">>},
     base_amount : {<<30>>}, transaction_date : {<<DateOf(1)>>},
     status : {<< >>}, payee_id : {<< >>}, category_id : {<< >>}]

MovementUpdateBodies ==
    [account_id : {<< >>} \cup Refs(1..MaxBalanceAccounts),
     transaction_type : {<< >>, <<"income">>, <<"expense">>},
     amount : {<< >>, <<20>>}, currency_code : {<< >>},
     base_amount : {<< >>}, transaction_date : {<< >>}, status : {<< >>},
     payee_id : {<< >>}, category_id : {<< >>}]

\* what a service call returned or raised, where no handler shapes it
Returned(r) ==
    [db |-> r.db, response |-> [Ok(0, r.value) EXCEPT !.raised = r.raised]]

OpenAccount ==
    /\ request = NONE /\ sequences.accounts <= MaxBalanceAccounts
    /\ \E data \in BalanceCreateBodies :
          Serve(Call("create_account", NULL, data),
                router_create_account(Db, sequences.accounts, data))
    /\ NextVal("accounts")

ReadAccount ==
    /\ request = NONE
    /\ \E id \in 1..MaxBalanceAccounts :
          Serve(Call("get_account", id, << >>), router_get_account(Db, id))
    /\ UNCHANGED sequences

AmendAccount ==
    /\ request = NONE
    /\ \E id \in 1..MaxBalanceAccounts, data \in BalanceUpdateBodies :
          \/ Serve(Call("update_account_full", id, data),
                   update_account_full(Db, id, data))
          \/ Serve(Call("update_account_partial", id, data),
                   update_account_partial(Db, id, data))
    /\ UNCHANGED sequences

PostTransaction ==
    /\ request = NONE /\ sequences.transactions <= MaxMovements
    /\ \E data \in MovementBodies :
          Serve(Call("create_transaction", NULL, data),
                router_create_transaction(Db, sequences.transactions, data))
    /\ NextVal("transactions")

AmendTransaction ==
    /\ request = NONE
    /\ \E id \in 1..MaxMovements, data \in MovementUpdateBodies :
          Serve(Call("update_transaction", id, data),
                Returned(update_transaction(Db, id, data, TRUE)))
    /\ UNCHANGED sequences

RemoveTransaction ==
    /\ request = NONE
    /\ \E id \in 1..MaxMovements :
          Serve(Call("delete_transaction", id, << >>),
                Returned(delete_transaction(Db, id)))
    /\ UNCHANGED sequences

BNext ==
    \/ OpenAccount \/ ReadAccount \/ AmendAccount
    \/ PostTransaction \/ AmendTransaction \/ RemoveTransaction
    \/ Complete

SpecBalance == Init /\ [][BNext]_vars

(***************************************************************************)
(* List operations (list_* of services/*_service.py and of routers/*.py).  *)
(* A filter that was not supplied is NULL / NULLS; in a request limit,     *)
(* offset, sort and order are << >> when left to their Query default.      *)
(* A list call returns the set of results the store can give: rows that    *)
(* ORDER BY does not tell apart come in any order.                         *)
(***************************************************************************)
\* the rank of a name in the collation ORDER BY <name column> sorts by
Collate(name) ==
    CASE name = "A" -> 1 [] name = "B" -> 2 [] name = "C" -> 3
      [] name = "Cafe" -> 4 [] name = "Food" -> 5 [] name = "Rent" -> 6
      [] OTHER -> 7

\* query.filter(column == value) for every filter of p that is not None
Filtered(table, p, columns) ==
    {i \in DOMAIN table :
        \A f \in columns : p[f] # NullOf(f) => table[i][f] = p[f]}

\* query.limit(limit).offset(offset).all() over the ordered rows s
Page(s, limit, offset) ==
    SubSeq(s, offset + 1,
           IF offset + limit < Len(s) THEN offset + limit ELSE Len(s))

ListedMut(key, descending, p) ==
    {[rows |-> Page(s, p.limit, p.offset),
      total |-> Len(Page(s, p.limit, p.offset))] :
        s \in Orderings(key, descending)}

\* the (rows, total) results of a list query over the filtered rows, the
\* domain of key: total = query.count(), then the page of one of the orders
\* the query allows
Listed(key, descending, p) ==
    {[rows |-> Page(s, p.limit, p.offset), total |-> Cardinality(DOMAIN key)] :
        s \in Orderings(key, descending)}

\* account_service.list_accounts: no ORDER BY, the rows come in any order
list_accounts(db, p) ==
    LET rows == Filtered(db.accounts, p, {"account_type_id", "currency_code"})
    IN  Listed([i \in rows |-> 0], FALSE, p)

\* category_service.list_categories: ORDER BY category_name
list_categories(db, p) ==
    LET rows == Filtered(db.categories, p,
                         {"category_type", "category_group", "is_active"})
    IN  Listed([i \in rows |-> Collate(db.categories[i].category_name)],
               FALSE, p)

\* payee_service.list_payees: ORDER BY payee_name
list_payees(db, p) ==
    LET rows == Filtered(db.payees, p, {"is_active"})
    IN  Listed([i \in rows |-> Collate(db.payees[i].payee_name)], FALSE, p)

SortFieldMut(txns, sort, i) == txns[i].transaction_date

\* getattr(Transaction, sort, Transaction.transaction_date) of row i;
\* created_at is now() of the row's INSERT, which grows with the id
SortField(txns, sort, i) ==
    CASE sort = "amount" -> txns[i].amount
      [] sort = "created_at" -> i
      [] OTHER -> txns[i].transaction_date

list_transactionsMut(db, p) ==
    LET rows == {i \in Filtered(db.transactions, p,
                       {"account_id", "category_id", "payee_id", "status"}) :
                    DateFilter(db.transactions[i], p.start_date, p.end_date)}
    IN  Listed([i \in rows |-> SortField(db.transactions, p.sort, i)],
               p.order # "asc", p)

\* transaction_service.list_transactions
list_transactions(db, p) ==
    LET rows == {i \in Filtered(db.transactions, p,
                       {"account_id", "category_id", "payee_id",
                        "transaction_type", "status"}) :
                    DateFilter(db.transactions[i], p.start_date, p.end_date)}
    IN  Listed([i \in rows |-> SortField(db.transactions, p.sort, i)],
               p.order # "asc", p)

\* the query parameters of q that fail the validation of their Query(...):
\* limit ge=1 le=max, offset ge=0, order ^(asc|desc)$
QueryErrors(q, max) ==
    {f \in {"limit"} : q[f] # << >> /\ (q[f][1] < 1 \/ q[f][1] > max)}
    \cup {f \in {"offset"} : q[f] # << >> /\ q[f][1] < 0}
    \cup {f \in {"order"} \cap DOMAIN q :
              q[f] # << >> /\ q[f][1] \notin {"asc", "desc"}}

\* the parameters the handler passes on: the request's, and the Query
\* default of limit, offset, sort and order where the request has none
Params(q, limit) ==
    [f \in DOMAIN q |->
        CASE f = "limit" -> Coalesce(q[f], limit)
          [] f = "offset" -> Coalesce(q[f], 0)
          [] f = "sort" -> Coalesce(q[f], "transaction_date")
          [] f = "order" -> Coalesce(q[f], "desc")
          [] OTHER -> q[f]]

\* PaginatedResponse(data=rows, pagination=PaginationMetadata(limit,
\* offset, total)) for each result of the service call
Paginated(db, table, results, p) ==
    {[db |-> db, queried |-> TRUE,
      response |-> Ok(200,
          [data |-> [k \in DOMAIN r.rows |->
                        [id |-> r.rows[k], row |-> table[r.rows[k]]]],
           pagination |-> [limit |-> p.limit, offset |-> p.offset,
                           total |-> r.total]])] : r \in results}

router_list_accounts(db, q) ==
    LET p == Params(q, 50) IN
    Paginated(db, db.accounts, list_accounts(db, p), p)

router_list_categories(db, q) ==
    LET p == Params(q, 100) IN
    Paginated(db, db.categories, list_categories(db, p), p)

router_list_payees(db, q) ==
    LET p == Params(q, 100) IN
    Paginated(db, db.payees, list_payees(db, p), p)

valid_sort_fields == {"transaction_date", "amount", "created_at"}

\* an exception no handler catches: 500 Internal Server Error
Unhandled(exception) ==
    [status |-> 500, raised |-> exception, code |-> "", message |-> "",
     details |-> "", body |-> << >>]

\* transactions.py list_transactions.  Its parameter status (the status
\* filter) hides fastapi.status in the body, so the branch of an invalid
\* sort field, which builds HTTPException(status_code=
\* status.HTTP_400_BAD_REQUEST, ...), raises AttributeError instead.
router_list_transactions(db, q) ==
    LET p == Params(q, 50) IN
    IF p.sort \notin valid_sort_fields
    THEN {[db |-> db, queried |-> FALSE,
           response |-> Unhandled("AttributeError")]}
    ELSE Paginated(db, db.transactions, list_transactions(db, p), p)

(***************************************************************************)
(* The list requests, over a store that holds rows already: one table is   *)
(* drawn freely, in every order of creation, and the tables its rows refer *)
(* to hold the seeded accounts and categories.                             *)
(***************************************************************************)
\* the tables of at most MaxListed rows drawn from rows
Tables(rows) == UNION {[1..n -> rows] : n \in 0..MaxListed}

ListedAccounts ==
    Tables([account_type_id : AccountTypeIds, account_name : {"A", "B"},
            currency_code : Currencies, opening_balance : {0},
            current_balance : {0}, opening_balance_date : {CurrentDate},
            notes : {NULLS}])

ListedCategories ==
    Tables([category_name : {"Food", "Rent"}, category_type : {"expense"},
            category_group : {NULLS, "G"}, is_active : {"true", "false"}])

ListedPayees ==
    Tables([payee_name : {"Shop", "Cafe"}, default_category_id : {NULL},
            notes : {NULLS}, is_active : {"true", "false"}])

ListedTransactions ==
    Tables({r \in TxnRows : r.transaction_type \in ApiTxnTypes})

LInit ==
    /\ \/ /\ accounts \in ListedAccounts
          /\ categories = << >> /\ payees = << >> /\ transactions = << >>
       \/ /\ categories \in ListedCategories
          /\ accounts = << >> /\ payees = << >> /\ transactions = << >>
       \/ /\ payees \in ListedPayees
          /\ accounts = << >> /\ categories = << >> /\ transactions = << >>
       \/ /\ transactions \in ListedTransactions
          /\ accounts = [i \in AccountIds |-> Account(i)]
          /\ categories = [i \in CategoryIds |-> Category(i)]
          /\ payees = [i \in PayeeIds |-> Payee(i)]
    /\ sequences = [accounts |-> Len(accounts) + 1,
                    categories |-> Len(categories) + 1,
                    payees |-> Len(payees) + 1,
                    transactions |-> Len(transactions) + 1]
    /\ request = NONE
    /\ response = NONE
    /\ queried = FALSE
    /\ sessions = << >>

Limits == {<< >>, <<0>>, <<1>>}
Offsets == {<< >>, <<1>>}

AccountListRequests ==
    [op : {"list_accounts"}, account_type_id : {NULL, 1},
     currency_code : {NULLS, "EUR"}, limit : Limits, offset : Offsets]

CategoryListRequests ==
    [op : {"list_categories"}, category_type : {NULLS, "expense"},
     category_group : {NULLS, "G"}, is_active : {NULLS, "true"},
     limit : Limits, offset : Offsets]

PayeeListRequests ==
    [op : {"list_payees"}, is_active : {NULLS, "true"}, limit : Limits,
     offset : Offsets]

TransactionListRequests ==
    [op : {"list_transactions"}, account_id : FilterIds,
     category_id : FilterIds, payee_id : {NULL},
     transaction_type : {NULLS, "expense"}, status : {NULLS, "pending"},
     start_date : StartDates, end_date : EndDates,
     sort : {<< >>, <<"amount">>, <<"created_at">>, <<"invalid_field">>},
     order : {<< >>, <<"asc">>}, limit : {<< >>, <<1>>}, offset : Offsets]

\* the list request q is validated against max and then answered by one of
\* the outcomes its handler can have; a list changes nothing
List(q, max, outcomes) ==
    /\ request' = q
    /\ IF QueryErrors(q, max) # {}
       THEN /\ response' = RequestValidationError(QueryErrors(q, max))
            /\ queried' = FALSE
       ELSE \E o \in outcomes :
               /\ response' = o.response
               /\ queried' = o.queried
    /\ UNCHANGED <<store, sequences, sessions>>

ListAccounts ==
    request = NONE /\ \E q \in AccountListRequests : List(q, 100, router_list_accounts(Db, q))

ListCategories ==
    request = NONE /\ \E q \in CategoryListRequests :
        List(q, 200, router_list_categories(Db, q))

ListPayees ==
    request = NONE /\ \E q \in PayeeListRequests : List(q, 200, router_list_payees(Db, q))

ListTransactions ==
    request = NONE /\ \E q \in TransactionListRequests :
        List(q, 100, router_list_transactions(Db, q))

LNext == ListAccounts \/ ListCategories \/ ListPayees \/ ListTransactions

SpecLists == LInit /\ [][LNext]_vars

(***************************************************************************)
(* Transfers.  The store holds transactions of every type, transfers       *)
(* included (other software writes them); the requests create, change,     *)
(* get and list transactions, and the writes also name the type transfer.  *)
(***************************************************************************)
MaxTransferRows == 3

TransferRows ==
    {r \in TxnRows : /\ r.account_id = 1 /\ r.amount = 30
                     /\ r.transaction_date = DateOf(1)
                     /\ r.payee_id = NULL /\ r.category_id = NULL}

TInit ==
    /\ transactions \in Tables(TransferRows)
    /\ accounts = [i \in AccountIds |-> Account(i)]
    /\ categories = [i \in CategoryIds |-> Category(i)]
    /\ payees = [i \in PayeeIds |-> Payee(i)]
    /\ sequences = [accounts |-> Len(accounts) + 1,
                    categories |-> Len(categories) + 1,
                    payees |-> Len(payees) + 1,
                    transactions |-> Len(transactions) + 1]
    /\ request = NONE
    /\ response = NONE
    /\ queried = FALSE
    /\ sessions = << >>

TransferCreateBodies ==
    [account_id : {<<1>>},
     transaction_type : {<<"income">>, <<"expense">>, <<"transfer">>},
     amount : {<<30>>}, currency_code : {<<"USD">>}, base_amount : {<<30>>},
     transaction_date : {<<DateOf(1)>>}, status : {<< >>},
     payee_id : {<< >>}, category_id : {<< >>}]

TransferUpdateBodies ==
    [account_id : {<< >>},
     transaction_type : {<< >>, <<"income">>, <<"transfer">>},
     amount : {<< >>, <<20>>}, currency_code : {<< >>},
     base_amount : {<< >>}, transaction_date : {<< >>}, status : {<< >>},
     payee_id : {<< >>}, category_id : {<< >>}]

\* GET /transactions with no query parameter
Unfiltered ==
    [op |-> "list_transactions", account_id |-> NULL, category_id |-> NULL,
     payee_id |-> NULL, transaction_type |-> NULLS, status |-> NULLS,
     start_date |-> NULL, end_date |-> NULL, sort |-> << >>,
     order |-> << >>, limit |-> << >>, offset |-> << >>]

\* pydantic's ValidationError, raised where the schema object is built
ValidationError(errors) ==
    [Ok(0, <<errors>>) EXCEPT !.raised = "ValidationError"]

WriteTransaction ==
    /\ request = NONE /\ sequences.transactions <= MaxTransferRows
    /\ \E data \in TransferCreateBodies :
          LET q == Call("create_transaction", NULL, data)
              errors == TransactionCreateErrors(data)
          IN  IF errors # {}
              THEN Reject(q, RequestValidationError(errors))
              ELSE /\ Serve(q, router_create_transaction(
                                   Db, sequences.transactions, data))
                   /\ NextVal("transactions")

ChangeTransaction ==
    /\ request = NONE
    /\ \E id \in 1..MaxTransferRows, data \in TransferUpdateBodies :
          LET q == Call("update_transaction", id, data)
              errors == TransactionUpdateErrors(data)
          IN  IF errors # {}
              THEN Reject(q, ValidationError(errors))
              ELSE /\ Serve(q, Returned(update_transaction(Db, id, data,
                                                            TRUE)))
                   /\ UNCHANGED sequences

ReadTransaction ==
    /\ request = NONE
    /\ \E id \in 1..MaxTransferRows :
          Serve(Call("get_transaction", id, << >>),
                router_get_transaction(Db, id))
    /\ UNCHANGED sequences

ListUnfiltered ==
    /\ request = NONE
    /\ List(Unfiltered, 100, router_list_transactions(Db, Unfiltered))

TNext ==
    \/ WriteTransaction \/ ChangeTransaction \/ ReadTransaction
    \/ ListUnfiltered \/ Complete

SpecTransfer == TInit /\ [][TNext]_vars

(***************************************************************************)
(* database.py get_db: the session of a request.  FastAPI runs the         *)
(* generator up to its yield before the handler and resumes it when the    *)
(* request is over: after the response of a handler that returned, or by   *)
(* throwing the handler's exception into it; either way the finally block  *)
(* runs.  GET /health declares no session.                                 *)
(***************************************************************************)
NumRequests == 3

RequestIds == 1..NumRequests

\* how a handler ends
Endings == {"return", "HTTPException", "Exception"}

Waiting ==
    [pc |-> "waiting", acquired |-> FALSE, open |-> FALSE, closes |-> 0,
     ending |-> ""]

\* db = SessionLocal(); try: yield db
get_db_yield(s) ==
    [s EXCEPT !.pc = "handler", !.acquired = TRUE, !.open = TRUE]

\* closes the session only where the handler returned
get_db_finallyMut(s) ==
    IF s.ending = "return"
    THEN [s EXCEPT !.pc = "done", !.open = FALSE, !.closes = @ + 1]
    ELSE [s EXCEPT !.pc = "done"]

\* finally: db.close()
get_db_finally(s) ==
    [s EXCEPT !.pc = "done", !.open = FALSE, !.closes = @ + 1]

SInit ==
    /\ accounts = << >>
    /\ categories = << >>
    /\ payees = << >>
    /\ transactions = << >>
    /\ sequences = [accounts |-> 1, categories |-> 1, payees |-> 1,
                    transactions |-> 1]
    /\ request = NONE
    /\ response = NONE
    /\ queried = FALSE
    /\ sessions = [r \in RequestIds |-> Waiting]

\* the request r reaches a handler that depends on get_db
Acquire(r) ==
    /\ sessions[r].pc = "waiting"
    /\ sessions' = [sessions EXCEPT ![r] = get_db_yield(@)]
    /\ UNCHANGED <<store, sequences, request, response, queried>>

\* the request r is for a route that declares no session
HealthCheck(r) ==
    /\ sessions[r].pc = "waiting"
    /\ sessions' = [sessions EXCEPT ![r] = [@ EXCEPT !.pc = "done",
                                                     !.ending = "return"]]
    /\ UNCHANGED <<store, sequences, request, response, queried>>

\* the handler of r returns, raises an HTTPException or raises another
\* exception
Handle(r) ==
    /\ sessions[r].pc = "handler"
    /\ \E e \in Endings :
          sessions' = [sessions EXCEPT ![r] = [@ EXCEPT !.pc = "finally",
                                                        !.ending = e]]
    /\ UNCHANGED <<store, sequences, request, response, queried>>

\* the generator of r is resumed, or the exception thrown into it
Release(r) ==
    /\ sessions[r].pc = "finally"
    /\ sessions' = [sessions EXCEPT ![r] = get_db_finally(@)]
    /\ UNCHANGED <<store, sequences, request, response, queried>>

SNext ==
    \E r \in RequestIds :
        Acquire(r) \/ HealthCheck(r) \/ Handle(r) \/ Release(r)

\* a handler ends, and the framework exits the dependency of a request
\* whose handler has ended
SpecSessions ==
    /\ SInit /\ [][SNext]_vars
    /\ \A r \in RequestIds : WF_vars(Handle(r)) /\ WF_vars(Release(r))

(***************************************************************************)
(* main.py: the application and the routes it has.  A path is the sequence *)
(* of its segments; the first one is the prefix of a router or the health  *)
(* check's own path.                                                       *)
(***************************************************************************)
\* app.include_router(accounts.router); app.include_router(reference.router)
include_router == {"accounts", "reference"}

\* @app.get("/health") and the included routers
Routes == {"health"} \cup include_router

\* the paths requested, one or more of each group of the HTTP surface
Paths ==
    {<<"accounts">>, <<"reference", "account-types">>,
     <<"reference", "currencies">>, <<"health">>, <<"transactions">>,
     <<"categories">>, <<"payees">>, <<"analytics", "summary">>,
     <<"analytics", "breakdown">>, <<"analytics", "trend">>,
     <<"schema", "tables">>}

\* Starlette's answer to a path no route matches: 404 {"detail": "Not Found"}
UnknownRoute ==
    [status |-> 404, raised |-> "NoMatch", code |-> "",
     message |-> "Not Found", details |-> "", body |-> << >>]

Routed(path) == path[1] \in Routes

\* requests to the accounts router
Accounts ==
    /\ Routed(<<"accounts">>)
    /\ \/ CreateAccount \/ GetAccount \/ PutAccount \/ PatchAccount
       \/ DeleteAccount

\* GET /reference/account-types and GET /reference/currencies
Reference ==
    /\ request = NONE
    /\ \E path \in {p \in Paths : p[1] = "reference"} :
          /\ Routed(path)
          /\ Serve([op |-> "reference", path |-> path],
                   [db |-> Db,
                    response |-> Ok(200, IF path[2] = "currencies"
                                         THEN Currencies
                                         ELSE AccountTypeIds)])
    /\ UNCHANGED sequences

\* GET /health
Health ==
    /\ request = NONE /\ Routed(<<"health">>)
    /\ Reject([op |-> "health_check", path |-> <<"health">>],
              Ok(200, "healthy"))

\* a request to a path of a router the application does not include
NoMatch ==
    /\ request = NONE
    /\ \E path \in Paths :
          /\ ~Routed(path)
          /\ Reject([op |-> "no_match", path |-> path], UnknownRoute)

AppNext == Accounts \/ Reference \/ Health \/ NoMatch \/ Complete

SpecApp == Init /\ [][AppNext]_vars

(***************************************************************************)
(* Requests side by side.  create_engine sets no isolation_level, so each  *)
(* session runs at the server's default, READ COMMITTED: every statement   *)
(* sees the rows committed before it starts.  A list is two statements,    *)
(* query.count() and then query.offset().limit().all(); a commit of        *)
(* another request can fall between them.                                  *)
(***************************************************************************)
NumLists == 2
MaxConcurrentRows == 2

ListIds == 1..NumLists

ConcurrentListRequests ==
    [op : {"list_accounts"}, account_type_id : {NULL},
     currency_code : {NULLS}, limit : {<< >>, <<1>>}, offset : Offsets]

ConcurrentCreateBodies ==
    [account_type_id : {<<1>>}, account_name : {<<"A">>, <<"B">>},
     currency_code : {<< >>}, opening_balance : {<< >>},
     opening_balance_date : {<< >>}, notes : {<< >>}]

NotStarted == [pc |-> "start", p |-> << >>, total |-> 0, rows |-> << >>]

\* the store becomes db
Stored(db) ==
    /\ accounts' = db.accounts
    /\ categories' = db.categories
    /\ payees' = db.payees
    /\ transactions' = db.transactions

CInit ==
    /\ accounts = << >>
    /\ categories = << >>
    /\ payees = << >>
    /\ transactions = << >>
    /\ sequences = [accounts |-> 1, categories |-> 1, payees |-> 1,
                    transactions |-> 1]
    /\ request = NONE
    /\ response = NONE
    /\ queried = FALSE
    /\ sessions = [r \in ListIds |-> NotStarted]

\* total = query.count() of the list request r
CountRows(r) ==
    /\ sessions[r].pc = "start"
    /\ \E q \in ConcurrentListRequests :
          LET p == Params(q, 50) IN
          \E result \in list_accounts(Db, p) :
              sessions' = [sessions EXCEPT ![r] =
                  [pc |-> "counted", p |-> p, total |-> result.total,
                   rows |-> << >>]]
    /\ UNCHANGED <<store, sequences, request, response, queried>>

\* accounts = query.offset(offset).limit(limit).all() of the list request
\* r, and its response
FetchRows(r) ==
    /\ sessions[r].pc = "counted"
    /\ \E result \in list_accounts(Db, sessions[r].p) :
          sessions' = [sessions EXCEPT ![r] =
              [@ EXCEPT !.pc = "done", !.rows = result.rows]]
    /\ UNCHANGED <<store, sequences, request, response, queried>>

\* another request commits the creation of an account
CommitCreate ==
    /\ sequences.accounts <= MaxConcurrentRows
    /\ \E data \in ConcurrentCreateBodies :
          Stored(create_account(Db, sequences.accounts, data).db)
    /\ NextVal("accounts")
    /\ UNCHANGED <<request, response, queried, sessions>>

\* another request commits the deletion of an account
CommitDelete ==
    /\ \E id \in DOMAIN accounts : Stored(delete_account(Db, id).db)
    /\ UNCHANGED <<sequences, request, response, queried, sessions>>

CNext ==
    \/ \E r \in ListIds : CountRows(r) \/ FetchRows(r)
    \/ CommitCreate \/ CommitDelete

SpecConcurrentLists == CInit /\ [][CNext]_vars

(***************************************************************************)
(* Two updates of the same row side by side.  Each request loads the row   *)
(* (SELECT), sets the attributes of its body on the object it loaded, and  *)
(* commits: the flush sends an UPDATE that names the attributes whose      *)
(* value differs from the loaded one, and that UPDATE acts on the row as   *)
(* it is committed by then.                                                *)
(***************************************************************************)
UpdateIds == 1..2

ConcurrentAccountBodies ==
    [account_type_id : {<< >>}, account_name : {<< >>, <<"B">>},
     currency_code : {<< >>, <<"EUR">>}, notes : {<< >>, <<"n">>}]

ConcurrentPayeeBodies ==
    [payee_name : {<< >>, <<"Cafe">>}, default_category_id : {<< >>, <<1>>},
     notes : {<< >>, <<"n">>}, is_active : {<< >>, <<"false">>}]

\* the fields a body supplies
Supplied(data) == {f \in DOMAIN data : data[f] # << >>}

\* the update requests on the row 1 of a table: PUT or PATCH with a body
\* that supplies a field
UpdateRequests ==
    [table : {"accounts"},
     op : {"update_account_full", "update_account_partial"},
     data : {d \in ConcurrentAccountBodies : Supplied(d) # {}}]
    \cup [table : {"payees"}, op : {"update_payee_put", "update_payee_patch"},
          data : {d \in ConcurrentPayeeBodies : Supplied(d) # {}}]

\* the partial argument the handler op passes to its service
Partial(op) == op # "update_payee_put"

UpdateSchema(table) == IF table = "accounts" THEN AccountUpdate ELSE PayeeUpdate

\* the attributes a flush finds modified: set to another value than loaded
Modified(loaded, update_data) ==
    {f \in DOMAIN update_data : update_data[f] # loaded[f]}

\* UPDATE table SET modified attributes WHERE id: the row it leaves
Updated(current, loaded, update_data) ==
    [f \in DOMAIN current |->
        IF f \in Modified(loaded, update_data) THEN update_data[f]
        ELSE current[f]]

\* two requests for the same row whose bodies supply disjoint sets of fields
UInit ==
    /\ accounts = [i \in {1} |-> Account(i)]
    /\ categories = [i \in CategoryIds |-> Category(i)]
    /\ payees = [i \in {1} |-> Payee(i)]
    /\ transactions = << >>
    /\ sequences = [accounts |-> 2, categories |-> NumCategories + 1,
                    payees |-> 2, transactions |-> 1]
    /\ request = NONE
    /\ response = NONE
    /\ queried = FALSE
    /\ \E q1, q2 \in UpdateRequests :
          /\ q1.table = q2.table
          /\ Supplied(q1.data) \cap Supplied(q2.data) = {}
          /\ sessions = [r \in UpdateIds |->
                 [pc |-> "start", q |-> IF r = 1 THEN q1 ELSE q2,
                  loaded |-> << >>, raised |-> ""]]

\* get_account / get_payee of the request r
SelectRow(r) ==
    /\ sessions[r].pc = "start"
    /\ sessions' = [sessions EXCEPT ![r] =
           [@ EXCEPT !.pc = "loaded",
                     !.loaded = First(Db[sessions[r].q.table], 1)]]
    /\ UNCHANGED <<store, sequences, request, response, queried>>

\* model_dump, setattr and db.commit() of the request r; a failed commit is
\* rolled back by the handler
CommitUpdate(r) ==
    /\ sessions[r].pc = "loaded"
    /\ LET q == sessions[r].q
           update_data == model_dump(UpdateSchema(q.table), q.data,
                                     Partial(q.op))
           row == Updated(Db[q.table][1], sessions[r].loaded[1], update_data)
           result == Commit(Db, [Db EXCEPT ![q.table] = With(@, 1, row)], 1)
       IN  /\ Stored(result.db)
           /\ sessions' = [sessions EXCEPT ![r] =
                  [@ EXCEPT !.pc = "done", !.raised = result.raised]]
    /\ UNCHANGED <<sequences, request, response, queried>>

UNext == \E r \in UpdateIds : SelectRow(r) \/ CommitUpdate(r)

SpecConcurrentUpdates == UInit /\ [][UNext]_vars

(***************************************************************************)
(* Properties of the analytics queries.  Each states what the response     *)
(* must be from the rows of the store, without the operators above.        *)
(***************************************************************************)
IsTransfer(t) == t.transaction_type = "transfer"

WithoutTransfers(txns) ==
    [i \in {j \in DOMAIN txns : ~IsTransfer(txns[j])} |-> txns[i]]

InRange(t, q) ==
    /\ (q.start_date = NULL \/ q.start_date <= t.transaction_date)
    /\ (q.end_date = NULL \/ t.transaction_date <= q.end_date)

HasType(t, q) ==
    q.transaction_type = NULLS \/ t.transaction_type = q.transaction_type

HasId(col, id) == id = NULL \/ (col # NULL /\ col = id)

\* what the transfer row t would add to the rows the request q selects
WouldMatch(t, q) ==
    /\ InRange(t, q)
    /\ q.transaction_type = NULLS
    /\ (q.op # "summary" => HasId(t.account_id, q.account_id))
    /\ (q.op = "summary" =>
          /\ HasId(t.account_id, q.account_id)
          /\ HasId(t.category_id, q.category_id)
          /\ HasId(t.payee_id, q.payee_id))

\* C1: every analytics response is the one the same request gets from the
\* store with all its transfer rows removed, so transfer rows never change
\* a summary, a breakdown or a trend, whatever filters are supplied.
C1_TransfersExcluded ==
    request # NONE =>
        LET t == WithoutTransfers(transactions) IN
        CASE request.op = "summary" ->
                response.body = get_summary(t, request)
          [] request.op = "breakdown" ->
                response.body \in
                    get_breakdown(accounts, categories, payees, t, request)
          [] OTHER -> response.body \in get_trend(t, request)

\* a summary over a store holding a transfer row that passes every supplied
\* filter, next to a counted row
C1_Witness ==
    /\ request # NONE
    /\ request.op = "summary"
    /\ request.account_id # NULL
    /\ response.body.count = 1
    /\ \E i \in DOMAIN transactions :
          IsTransfer(transactions[i]) /\ WouldMatch(transactions[i], request)

\* C2: get_summary returns the number of non-transfer rows that satisfy
\* every supplied filter (date bounds inclusive) and the sum of their
\* base_amount, and (0, 0) when no row matches.
SummaryMatches(q) ==
    {i \in DOMAIN transactions :
        /\ ~IsTransfer(transactions[i])
        /\ InRange(transactions[i], q)
        /\ HasType(transactions[i], q)
        /\ HasId(transactions[i].category_id, q.category_id)
        /\ HasId(transactions[i].account_id, q.account_id)
        /\ HasId(transactions[i].payee_id, q.payee_id)}

C2_SummaryCorrect ==
    (request # NONE /\ request.op = "summary") =>
        LET M == SummaryMatches(request) IN
        /\ response.body.count = Cardinality(M)
        /\ response.body.total =
              SumOver(M, [i \in M |-> transactions[i].base_amount])
        /\ (M = {} => response.body.total = 0 /\ response.body.count = 0)

\* two expense rows of 30 and 50 on account 1: total 80, count 2
C2_Witness ==
    /\ request # NONE
    /\ request.op = "summary"
    /\ request.account_id = 1
    /\ request.end_date = NULL
    /\ request.start_date # NULL
    /\ request.transaction_type = "expense"
    /\ response.body = [total |-> 80, count |-> 2]

\* C3: get_breakdown returns labels and values of equal length, one entry
\* per distinct display name among the matching non-transfer rows joined to
\* the dimension's table, each value the metric over the rows of its label,
\* and the values in non-increasing order.
NameOf(dimension, id) ==
    CASE dimension = "category" -> categories[id].category_name
      [] dimension = "payee" -> payees[id].payee_name
      [] OTHER -> accounts[id].account_name

KeyOf(dimension, t) ==
    CASE dimension = "category" -> t.category_id
      [] dimension = "payee" -> t.payee_id
      [] OTHER -> t.account_id

IdsOf(dimension) ==
    CASE dimension = "category" -> DOMAIN categories
      [] dimension = "payee" -> DOMAIN payees
      [] OTHER -> DOMAIN accounts

\* rows the breakdown of q aggregates when it honours the filters in use
Joined(q, use_account, use_category) ==
    {i \in DOMAIN transactions :
        /\ ~IsTransfer(transactions[i])
        /\ KeyOf(q.dimension, transactions[i]) \in IdsOf(q.dimension)
        /\ InRange(transactions[i], q)
        /\ HasType(transactions[i], q)
        /\ (use_account => HasId(transactions[i].account_id, q.account_id))
        /\ (use_category => HasId(transactions[i].category_id, q.category_id))}

MetricOf(q, rows) ==
    IF q.metric = "sum"
    THEN SumOver(rows, [i \in rows |-> transactions[i].base_amount])
    ELSE Cardinality(rows)

LabelRows(q, rows, l) ==
    {i \in rows : NameOf(q.dimension, KeyOf(q.dimension, transactions[i])) = l}

IsBreakdownOf(body, q, rows) ==
    /\ Len(body.labels) = Len(body.values)
    /\ \A k, m \in DOMAIN body.labels : k # m => body.labels[k] # body.labels[m]
    /\ Range(body.labels) =
          {NameOf(q.dimension, KeyOf(q.dimension, transactions[i])) : i \in rows}
    /\ \A k \in DOMAIN body.labels :
          body.values[k] = MetricOf(q, LabelRows(q, rows, body.labels[k]))

C3_BreakdownCorrect ==
    (request # NONE /\ request.op = "breakdown") =>
        /\ IsBreakdownOf(response.body, request,
                         Joined(request, request.dimension # "account", FALSE))
        /\ \A k, m \in DOMAIN response.body.values :
              k < m => response.body.values[k] >= response.body.values[m]

\* two groups with different sums, the larger first
C3_Witness ==
    /\ request # NONE
    /\ request.op = "breakdown"
    /\ request.metric = "sum"
    /\ Len(response.body.labels) = 2
    /\ response.body.values[1] > response.body.values[2]

\* C4 as stated: every supplied filter other than the dimension's own id
\* narrows the rows a breakdown aggregates, category_id included.
C4_AllFiltersHonoured ==
    (request # NONE /\ request.op = "breakdown") =>
        IsBreakdownOf(response.body, request,
                      Joined(request, request.dimension # "account",
                             request.dimension # "category"))

\* C4 amended: a breakdown honours start_date, end_date, transaction_type
\* and, unless the dimension is account, account_id; a supplied category_id
\* never narrows the rows it aggregates: the counted rows are exactly the
\* joined rows that pass those four filters.
RECURSIVE SeqSum(_)
SeqSum(s) == IF s = << >> THEN 0 ELSE s[1] + SeqSum(Tail(s))

C4_DeclaredFiltersOnly ==
    (request # NONE /\ request.op = "breakdown") =>
        SeqSum(response.body.values) =
            MetricOf(request, Joined(request, request.dimension # "account", FALSE))

\* dimension account: a row of account 2 without category is aggregated
\* although account_id = 1 and category_id = 1 are supplied
C4_Witness ==
    /\ request # NONE
    /\ request.op = "breakdown"
    /\ request.dimension = "account"
    /\ request.account_id = 1
    /\ request.category_id = 1
    /\ \E k \in DOMAIN response.body.labels : response.body.labels[k] = "B"
    /\ \A i \in DOMAIN transactions : transactions[i].category_id = NULL

\* C5: get_trend returns one entry per grain period that holds a matching
\* non-transfer row and none for any other period; each date is the ISO
\* string of the period's first day (the day itself, the Monday of its week,
\* the first of its month), each value the sum of base_amount over the
\* period's rows, and the dates ascend strictly.
DigitValue(c) == CHOOSE n \in 0..9 : Digits[n + 1] = c

IsIsoDate(s) ==
    /\ Len(s) = 10
    /\ s[5] = "-" /\ s[8] = "-"
    /\ \A k \in {1, 2, 3, 4, 6, 7, 9, 10} : s[k] \in Range(Digits)

\* <<year, month, day>> written in an ISO date string
ParseIso(s) ==
    << DigitValue(s[1]) * 1000 + DigitValue(s[2]) * 100
         + DigitValue(s[3]) * 10 + DigitValue(s[4]),
       DigitValue(s[6]) * 10 + DigitValue(s[7]),
       DigitValue(s[9]) * 10 + DigitValue(s[10]) >>

\* day of the year 2025 of <<2025, month, day>>
RECURSIVE DaysBefore(_)
DaysBefore(m) == IF m = 1 THEN 0 ELSE MonthLengths[m - 1] + DaysBefore(m - 1)

DayOfYear(c) == DaysBefore(c[2]) + c[3]

\* 2025-01-06 is a Monday
IsMonday(doy) == (doy - 6) % 7 = 0

\* the day doy lies in the period of the grain that starts on the day first
InPeriod(grain, first, doy) ==
    CASE grain = "day" -> doy = first
      [] grain = "week" -> IsMonday(first) /\ first <= doy /\ doy < first + 7
      [] OTHER -> /\ first <= doy
                  /\ \E m \in 1..12 :
                        /\ first = DaysBefore(m) + 1
                        /\ doy <= DaysBefore(m) + MonthLengths[m]

TrendMatches(q) ==
    {i \in DOMAIN transactions :
        /\ ~IsTransfer(transactions[i])
        /\ InRange(transactions[i], q)
        /\ HasType(transactions[i], q)
        /\ HasId(transactions[i].category_id, q.category_id)
        /\ HasId(transactions[i].account_id, q.account_id)}

C5_TrendCorrect ==
    (request # NONE /\ request.op = "trend") =>
        LET M == TrendMatches(request)
            dates == response.body.dates
            values == response.body.values
            first(k) == DayOfYear(ParseIso(dates[k]))
            rows(k) == {i \in M : InPeriod(request.time_grain, first(k),
                                           transactions[i].transaction_date)}
        IN  /\ Len(dates) = Len(values)
            /\ \A k \in DOMAIN dates :
                  /\ IsIsoDate(dates[k])
                  /\ ParseIso(dates[k])[1] = 2025
                  /\ rows(k) # {}
                  /\ values[k] = SumOver(rows(k),
                        [i \in rows(k) |-> transactions[i].base_amount])
            /\ \A i \in M : \E k \in DOMAIN dates : i \in rows(k)
            /\ \A k, m \in DOMAIN dates : k < m => first(k) < first(m)

\* by week: rows of Sunday 2025-02-02 and Monday 2025-02-03 fall in the
\* weeks of 2025-01-27 and 2025-02-03
C5_Witness ==
    /\ request # NONE
    /\ request.op = "trend"
    /\ request.time_grain = "week"
    /\ response.body.dates =
          << <<"2", "0", "2", "5", "-", "0", "1", "-", "2", "7">>,
             <<"2", "0", "2", "5", "-", "0", "2", "-", "0", "3">> >>

\* C6: a request repeated against the unchanged store gets the response it
\* got before, and no analytics request changes the store.
C6_Deterministic ==
    [][(request # NONE /\ request' = request) =>
          (response' = response /\ store' = store)]_vars

(***************************************************************************)
(* Properties of the create, update and delete handlers.  A step that     *)
(* serves a request leads from request = NONE to the state holding the    *)
(* request, its response and the store the handler left.                  *)
(***************************************************************************)
Served == request = NONE /\ request' # NONE

PatchOps ==
    {"update_account_partial", "update_category_patch", "update_payee_patch"}
PutOps == {"update_account_full", "update_category_put", "update_payee_put"}
CreateOps ==
    {"create_account", "create_category", "create_payee",
     "create_transaction"}

\* the table the request op works on
TableName(op) ==
    CASE op \in {"create_account", "get_account", "update_account_full",
                 "update_account_partial", "delete_account"} -> "accounts"
      [] op \in {"create_category", "get_category", "update_category_put",
                 "update_category_patch", "delete_category"} -> "categories"
      [] op \in {"create_payee", "get_payee", "update_payee_put",
                 "update_payee_patch", "delete_payee"} -> "payees"
      [] OTHER -> "transactions"

TableOf(db, op) == db[TableName(op)]

\* db and after differ at most in the row id of the table of op
OnlyRowChanged(db, after, op, id) ==
    /\ DOMAIN TableOf(after, op) = DOMAIN TableOf(db, op)
    /\ \A j \in DOMAIN TableOf(db, op) \ {id} :
          TableOf(after, op)[j] = TableOf(db, op)[j]
    /\ \A t \in DOMAIN db \ {TableName(op)} : after[t] = db[t]

\* C7: a PATCH of an existing account, category or payee leaves every field
\* omitted from the body and every other row of the store unchanged; when
\* it is applied (200) every field of the body holds the supplied value and
\* the response shows the row as stored; when it is refused nothing changes.
C7_PatchFrame ==
    [][(Served /\ request'.op \in PatchOps
          /\ request'.id \in DOMAIN TableOf(Db, request'.op)) =>
        LET q == request'
            old == TableOf(Db, q.op)[q.id]
            new == TableOf(Db', q.op)[q.id]
        IN  /\ q.id \in DOMAIN TableOf(Db', q.op)
            /\ OnlyRowChanged(Db, Db', q.op, q.id)
            /\ \A f \in DOMAIN old :
                  (f \notin DOMAIN q.data \/ q.data[f] = << >>)
                      => new[f] = old[f]
            /\ response'.status = 200 =>
                  /\ \A f \in DOMAIN q.data :
                        q.data[f] # << >> => new[f] = q.data[f][1]
                  /\ response'.body = <<[id |-> q.id, row |-> new]>>
            /\ response'.status # 200 => new = old]_vars

\* PATCH /categories/{id} with a new name and no category_group, applied to
\* a category in group "G" while another category exists
C7_Witness ==
    /\ request # NONE
    /\ request.op = "update_category_patch"
    /\ request.data.category_name = <<"Rent">>
    /\ request.data.category_group = << >>
    /\ response.status = 200
    /\ categories[request.id].category_name = "Rent"
    /\ categories[request.id].category_group = "G"
    /\ Cardinality(DOMAIN categories) = 2

\* the outcome of the PATCH handler of the entity that the PUT op updates
PatchOutcome(op, db, id, data) ==
    CASE op = "update_account_full" -> update_account_partial(db, id, data)
      [] op = "update_category_put" -> update_category_patch(db, id, data)
      [] OTHER -> update_payee_patch(db, id, data)

\* C8: a PUT answers, and leaves the store, as the PATCH with the same id
\* and the same body does from the same store.
C8_PutEqualsPatch ==
    [][(Served /\ request'.op \in PutOps) =>
        LET patch == PatchOutcome(request'.op, Db, request'.id, request'.data)
        IN  response' = patch.response /\ Db' = patch.db]_vars

\* transactions whose column holds id
Referencing(column, id) ==
    {i \in DOMAIN transactions : transactions[i][column] = id}

RefColumn(op) == IF op = "delete_category" THEN "category_id" ELSE "payee_id"

\* C9: deleting a category or payee that a transaction references is
\* answered 409 CONFLICT, the row stays and so does every reference to it.
C9_ReferencedDeleteConflicts ==
    [][(Served /\ request'.op \in {"delete_category", "delete_payee"}
          /\ Referencing(RefColumn(request'.op), request'.id) # {}) =>
        LET q == request'
            refs == Referencing(RefColumn(q.op), q.id)
        IN  /\ response'.status = 409
            /\ response'.code = "CONFLICT"
            /\ q.id \in DOMAIN TableOf(Db', q.op)
            /\ \A i \in refs :
                  /\ i \in DOMAIN transactions'
                  /\ transactions'[i][RefColumn(q.op)] = q.id]_vars

\* the body field f of q is set to a value that names no row of keys
Dangling(q, f, keys, null) ==
    /\ f \in DOMAIN q.data
    /\ q.data[f] # << >>
    /\ q.data[f][1] # null
    /\ q.data[f][1] \notin keys

\* the request names an account type, currency, account, category or payee
\* that does not exist
NamesMissingRow(q) ==
    \/ Dangling(q, "account_type_id", AccountTypeIds, NULL)
    \/ Dangling(q, "currency_code", Currencies, NULLS)
    \/ Dangling(q, "account_id", DOMAIN accounts, NULL)
    \/ Dangling(q, "category_id", DOMAIN categories, NULL)
    \/ Dangling(q, "default_category_id", DOMAIN categories, NULL)
    \/ Dangling(q, "payee_id", DOMAIN payees, NULL)

\* C10: a create, or an update of an existing row, that names a missing
\* referenced row is answered 422 VALIDATION_ERROR and leaves the store as
\* it was.
C10_MissingReferenceRejected ==
    [][(Served /\ request'.op \in CreateOps \cup PutOps \cup PatchOps
          /\ (request'.op \notin CreateOps
                => request'.id \in DOMAIN TableOf(Db, request'.op))
          /\ NamesMissingRow(request')) =>
        /\ response'.status = 422
        /\ \/ response'.code = "VALIDATION_ERROR"
           \/ response'.raised = "RequestValidationError"
        /\ store' = store]_vars

(***************************************************************************)
(* Error handling.                                                         *)
(***************************************************************************)
DeleteOps == {"delete_account", "delete_category", "delete_payee"}
GetOps == {"get_account", "get_category", "get_payee", "get_transaction"}

\* the messages of the database's errors
StoreMessages == {"NotNullViolation", "ForeignKeyViolation"}

\* the write of the step failed on a constraint of the store: its handler
\* caught the IntegrityError of the commit
ConstraintFailure ==
    /\ Served
    /\ request'.op \in CreateOps \cup PutOps \cup PatchOps \cup DeleteOps
    /\ response'.raised = "HTTPException"
    /\ response'.status # 404

\* C11: when a write fails on a constraint of the store, the store is left
\* as it was before the request and the error body carries a code and texts
\* of the handler only, never the message of the database error.
C11_NoRawStoreError ==
    [][ConstraintFailure =>
        /\ store' = store
        /\ response'.code \in {"VALIDATION_ERROR", "BAD_REQUEST", "CONFLICT"}
        /\ response'.message \notin StoreMessages
        /\ response'.details \notin StoreMessages]_vars

\* C12: every error response has the body {"error": {"code", "message",
\* "details"?}}: one top-level member, error, holding at least a code and
\* a message and nothing but code, message and details.
C12_OneErrorShape ==
    (response # NONE /\ "raised" \in DOMAIN response
       /\ response.status >= 400) =>
        LET body == JsonBody(response) IN
        /\ DOMAIN body = {"error"}
        /\ {"code", "message"} \subseteq DOMAIN body.error
        /\ DOMAIN body.error \subseteq {"code", "message", "details"}

\* C13: a get, update or delete of an id that is not in its table is
\* answered 404 NOT_FOUND and changes nothing, and a delete answered 204
\* leaves the id out of its table, where no later create puts it back.
C13_AbsentIsNotFound ==
    [][/\ (Served /\ request'.op \in GetOps \cup PutOps \cup PatchOps \cup DeleteOps
            /\ request'.id \notin DOMAIN TableOf(Db, request'.op)) =>
           /\ response'.status = 404
           /\ response'.code = "NOT_FOUND"
           /\ store' = store
       /\ (Served /\ request'.op \in DeleteOps /\ response'.status = 204) =>
           request'.id \notin DOMAIN TableOf(Db', request'.op)
       /\ \A t \in DOMAIN Db : \A i \in DOMAIN Db'[t] \ DOMAIN Db[t] :
             i = sequences[t] /\ sequences'[t] > i]_vars

\* a get of a category that was created and then deleted is answered 404
C13_Witness ==
    /\ request # NONE
    /\ request.op = "get_category"
    /\ request.id < sequences.categories
    /\ request.id \notin DOMAIN categories
    /\ response.status = 404

\* C18: a transaction create whose amount is zero or negative is answered
\* with a validation error before its handler runs: no statement reaches
\* the store, no id is drawn and the store holds the rows it held.
C18_NonPositiveAmountRejected ==
    [][(Served /\ request'.op = "create_transaction"
          /\ request'.data.amount # << >>
          /\ request'.data.amount[1] <= 0) =>
        /\ response'.status = 422
        /\ response'.raised = "RequestValidationError"
        /\ ~queried'
        /\ store' = store
        /\ sequences' = sequences]_vars

\* a create naming an existing account is rejected for its negative amount
C18_Witness ==
    /\ request # NONE
    /\ request.op = "create_transaction"
    /\ request.data.amount = <<-30>>
    /\ request.data.account_id[1] \in DOMAIN accounts
    /\ request.data.category_id = << >>
    /\ request.data.payee_id = << >>
    /\ response.status = 422
    /\ transactions = << >>

(***************************************************************************)
(* List operations.                                                        *)
(***************************************************************************)
ListOps ==
    {"list_accounts", "list_categories", "list_payees", "list_transactions"}

\* a list request was answered with a page
ListAnswered ==
    request # NONE /\ request.op \in ListOps /\ response.status = 200

\* the table a list request reads
ListTable ==
    CASE request.op = "list_accounts" -> accounts
      [] request.op = "list_categories" -> categories
      [] request.op = "list_payees" -> payees
      [] OTHER -> transactions

\* the row satisfies every filter the request supplies
Satisfies(row, q) ==
    /\ \A f \in DOMAIN q \ {"op", "limit", "offset", "sort", "order",
                            "start_date", "end_date"} :
          q[f] = NullOf(f) \/ row[f] = q[f]
    /\ ("start_date" \in DOMAIN q /\ q.start_date # NULL)
          => row.transaction_date >= q.start_date
    /\ ("end_date" \in DOMAIN q /\ q.end_date # NULL)
          => row.transaction_date <= q.end_date

MatchingRows ==
    {i \in DOMAIN ListTable : Satisfies(ListTable[i], request)}

\* C14: the total a list response reports is the number of rows of the
\* table that satisfy the request's filters, whatever its limit and offset.
C14_TotalIsFilteredCount ==
    ListAnswered =>
        /\ response.body.pagination.total = Cardinality(MatchingRows)
        /\ Len(response.body.data) <= response.body.pagination.total

\* a page of one row out of two that match
C14_Witness ==
    /\ ListAnswered
    /\ request.op = "list_transactions"
    /\ request.limit = <<1>>
    /\ request.account_id = 1
    /\ Len(transactions) = 2
    /\ response.body.pagination.total = 2
    /\ Len(response.body.data) = 1

\* C15: a list response holds only rows of the table that satisfy every
\* supplied filter, each at most once, start_date and end_date included in
\* the range; a filter that is absent excludes nothing: the first page of a
\* request that no limit cuts short holds every such row.
C15_FiltersConjunctive ==
    ListAnswered =>
        LET data == response.body.data IN
        /\ \A k \in DOMAIN data :
              /\ data[k].id \in MatchingRows
              /\ data[k].row = ListTable[data[k].id]
        /\ \A k, l \in DOMAIN data : k # l => data[k].id # data[l].id
        /\ (request.limit = << >> /\ request.offset = << >>) =>
              {data[k].id : k \in DOMAIN data} = MatchingRows

\* two filters, a date bound met exactly, and a row that only one filter
\* accepts
C15_Witness ==
    /\ ListAnswered
    /\ request.op = "list_transactions"
    /\ request.account_id = 1
    /\ request.transaction_type = "expense"
    /\ request.start_date = DateOf(2)
    /\ request.end_date = NULL /\ request.category_id = NULL
    /\ request.status = NULLS
    /\ request.limit = << >> /\ request.offset = << >>
    /\ Len(transactions) = 2
    /\ transactions[1].account_id = 1
    /\ transactions[1].transaction_type = "expense"
    /\ transactions[1].transaction_date = DateOf(2)
    /\ transactions[2].account_id = 1
    /\ transactions[2].transaction_type = "income"
    /\ Len(response.body.data) = 1
    /\ response.body.data[1].id = 1

\* the value a transaction list request orders by, of the entry e
OrderedBy(e) ==
    CASE request.sort = <<"amount">> -> e.row.amount
      [] request.sort = <<"created_at">> -> e.id
      [] OTHER -> e.row.transaction_date

\* C16: categories and payees are listed in ascending order of name;
\* transactions in the order of the requested field among transaction_date,
\* amount and created_at (transaction_date when none is requested),
\* ascending when asc is requested and descending otherwise.
C16_ListOrdered ==
    ListAnswered =>
        LET data == response.body.data IN
        \A k, l \in DOMAIN data : k < l =>
            CASE request.op = "list_categories" ->
                    Collate(data[k].row.category_name)
                        <= Collate(data[l].row.category_name)
              [] request.op = "list_payees" ->
                    Collate(data[k].row.payee_name)
                        <= Collate(data[l].row.payee_name)
              [] request.op = "list_transactions" ->
                    IF request.order = <<"asc">>
                    THEN OrderedBy(data[k]) <= OrderedBy(data[l])
                    ELSE OrderedBy(data[k]) >= OrderedBy(data[l])
              [] OTHER -> TRUE

\* transactions listed by amount, descending, against their order by date
C16_Witness ==
    /\ ListAnswered
    /\ request.op = "list_transactions"
    /\ request.sort = <<"amount">> /\ request.order = << >>
    /\ Len(response.body.data) = 2
    /\ response.body.data[1].id = 2
    /\ response.body.data[1].row.amount > response.body.data[2].row.amount
    /\ response.body.data[1].row.transaction_date
          < response.body.data[2].row.transaction_date

\* C17: a transaction list request whose sort is not transaction_date,
\* amount or created_at is answered 400 VALIDATION_ERROR, not 500, and no
\* query reaches the store.
C17_InvalidSortIs400 ==
    (request # NONE /\ request.op = "list_transactions"
       /\ request.sort # << >>
       /\ request.sort[1] \notin {"transaction_date", "amount", "created_at"})
    =>  /\ response.status = 400
        /\ response.code = "VALIDATION_ERROR"
        /\ ~queried

(***************************************************************************)
(* Balances                                                                *)
(***************************************************************************)
\* the account a 201 answer to create_account returns
Created == response.body[1]

BalanceDerived ==
    \A a \in DOMAIN accounts :
        accounts[a].current_balance =
            accounts[a].opening_balance + Movement(transactions, a)

\* columns of Account declared with default=..., a value the ORM computes
\* and sends in the INSERT when the object holds none (models/account.py)
AccountDefaults == {"currency_code", "opening_balance", "current_balance"}

\* The columns of accounts that the statements of the request q assign.  An
\* INSERT names the columns the constructor was given and the columns with
\* a default of the mapped class; an UPDATE names the attributes set by
\* setattr; the statements on transactions name no column of accounts.
Written(q) ==
    CASE q.op = "create_account" ->
            DOMAIN model_dump(AccountCreate, q.data, TRUE)
                \cup AccountDefaults
      [] q.op \in {"update_account_full", "update_account_partial"} ->
            DOMAIN model_dump(AccountUpdate, q.data, TRUE)
                \cap DOMAIN AccountColumns
      [] OTHER -> {}

\* C20: application code never sets an account's current_balance: no
\* account create or update and no transaction create, update or delete
\* writes a value to that column.
C20_BalanceNeverWritten ==
    [][request' # NONE => "current_balance" \notin Written(request')]_vars

\* C21: after any account update request (PUT or PATCH with any body, also
\* one that names opening_balance or opening_balance_date), every account
\* has the opening_balance and the opening_balance_date it had before, so
\* the ones it was created with.
C21_OpeningImmutable ==
    [][request'.op \in {"update_account_full", "update_account_partial"} =>
          \A a \in DOMAIN accounts :
              /\ a \in DOMAIN accounts'
              /\ accounts'[a].opening_balance = accounts[a].opening_balance
              /\ accounts'[a].opening_balance_date =
                     accounts[a].opening_balance_date]_vars

\* an update that names both opening fields, with other values than the
\* stored ones, was accepted
C21_Witness ==
    /\ request.op \in {"update_account_full", "update_account_partial"}
    /\ response.status = 200
    /\ request.data.opening_balance = <<60>>
    /\ request.data.opening_balance_date = <<DateOf(3)>>
    /\ request.data.account_name = <<"B">>
    /\ accounts[request.id].account_name = "B"
    /\ accounts[request.id].opening_balance = 50
    /\ accounts[request.id].opening_balance_date = DateOf(2)

(***************************************************************************)
(* Transfers                                                               *)
(***************************************************************************)
\* the ids of the transfer rows of a transactions table
Transfers(txns) == {i \in DOMAIN txns : IsTransfer(txns[i])}

\* C22: no create or update produces a transaction of type transfer (a row
\* is a transfer after a write only if it was one before), a write that
\* supplies transaction_type 'transfer' is rejected by validation with the
\* store unchanged, and get and the unfiltered list return the transfer
\* rows the store holds.
C22_TransferReadOnly ==
    [][/\ request'.op \in {"create_transaction", "update_transaction"} =>
             /\ Transfers(transactions') \subseteq Transfers(transactions)
             /\ request'.data.transaction_type = <<"transfer">> =>
                    /\ response'.raised \in {"RequestValidationError",
                                             "ValidationError"}
                    /\ "transaction_type" \in response'.body[1]
                    /\ store' = store
       /\ (request'.op = "get_transaction"
               /\ request'.id \in Transfers(transactions)) =>
             /\ response'.status = 200
             /\ response'.body[1].row = transactions[request'.id]
       /\ request'.op = "list_transactions" =>
             /\ response'.status = 200
             /\ \A i \in Transfers(transactions) :
                   \E k \in DOMAIN response'.body.data :
                       /\ response'.body.data[k].id = i
                       /\ response'.body.data[k].row = transactions[i]]_vars

\* a create naming the type transfer was rejected while the store holds a
\* transfer
C22_Witness ==
    /\ request.op = "create_transaction"
    /\ request.data.transaction_type = <<"transfer">>
    /\ response.status = 422
    /\ Transfers(transactions) # {}

(***************************************************************************)
(* Sessions                                                                *)
(***************************************************************************)
\* C23: every request that acquires a session through get_db releases it
\* exactly once when the request completes, however its handler ended: an
\* open session is eventually closed, no session is closed twice, and a
\* request that has ended holds no open session.
C23_SessionReleased ==
    \A r \in RequestIds :
        /\ [](sessions[r].closes <= 1)
        /\ [](sessions[r].pc = "done" =>
                 /\ ~sessions[r].open
                 /\ sessions[r].closes = IF sessions[r].acquired THEN 1 ELSE 0)
        /\ (sessions[r].open ~>
                (sessions[r].pc = "done" /\ ~sessions[r].open
                    /\ sessions[r].closes = 1))

\* requests whose handlers ended in each of the three ways have ended, each
\* with its session closed once
C23_Witness ==
    /\ \A r \in RequestIds :
          /\ sessions[r].pc = "done" /\ sessions[r].acquired
          /\ sessions[r].closes = 1
    /\ {sessions[r].ending : r \in RequestIds} = Endings

(***************************************************************************)
(* Routing                                                                 *)
(***************************************************************************)
\* C24: a request to a path of the HTTP surface (/transactions,
\* /categories, /payees, /analytics/..., /schema/... as well as /accounts,
\* /reference/... and /health) is dispatched to its handler and is never
\* answered as an unknown route.
C24_EveryGroupRouted ==
    (request # NONE /\ "path" \in DOMAIN request /\ request.path \in Paths)
        => response # UnknownRoute

(***************************************************************************)
(* Deleting an account                                                     *)
(***************************************************************************)
\* C25: deleting an account that still has transactions fails without
\* cascading (no account or transaction row is removed or altered) and is
\* answered as a referential-delete conflict, with status 409.
C25_AccountDeleteConflict ==
    [][(/\ request'.op = "delete_account"
        /\ \E i \in DOMAIN transactions :
              transactions[i].account_id = request'.id)
       => (store' = store /\ response'.status = 409)]_vars

\* an account that has transactions is never removed and its transactions
\* are never altered by its delete
AccountDeleteKeepsRows ==
    [][(/\ request'.op = "delete_account"
        /\ \E i \in DOMAIN transactions :
              transactions[i].account_id = request'.id)
       => (store' = store /\ response'.status = 422)]_vars

(***************************************************************************)
(* Breakdown and summary, trend and summary                                *)
(***************************************************************************)
\* the summary request with the filters of the analytics request q that
\* both operations apply
SummaryOf(q, category_id) ==
    [op |-> "summary", start_date |-> q.start_date, end_date |-> q.end_date,
     transaction_type |-> q.transaction_type, category_id |-> category_id,
     account_id |-> q.account_id, payee_id |-> NULL]

\* the transactions that have the dimension set
WithDimension(dimension) ==
    [i \in {j \in DOMAIN transactions :
               KeyOf(dimension, transactions[j]) # NULL} |-> transactions[i]]

C27_TrendAddsUpToSummary ==
    (request # NONE /\ request.op = "trend") =>
        /\ SeqSum(response.body.values) =
               get_summary(transactions,
                           SummaryOf(request, request.category_id)).total
        /\ Len(response.body.dates) = Len(response.body.values)

\* a trend of two periods under a category and a type filter
C27_Witness ==
    /\ request # NONE /\ request.op = "trend"
    /\ request.category_id # NULL /\ request.transaction_type # NULLS
    /\ Len(response.body.values) = 2
    /\ response.body.values[1] # response.body.values[2]
    /\ SeqSum(response.body.values) =
           get_summary(transactions,
                       SummaryOf(request, request.category_id)).total

(***************************************************************************)
(* Requests side by side                                                   *)
(***************************************************************************)
\* C28: when a list request runs while other requests commit creates or
\* deletes, the number of rows in its data never exceeds
\* max(0, total - offset) for the total of the same response.
C28_ListSelfConsistent ==
    \A r \in ListIds :
        sessions[r].pc = "done" =>
            LET room == sessions[r].total - sessions[r].p.offset IN
            Len(sessions[r].rows) <= IF room > 0 THEN room ELSE 0

\* both requests have ended
BothDone == \A r \in UpdateIds : sessions[r].pc = "done"

\* the request r succeeded and the row holds every field it supplied
ChangeKept(r) ==
    LET q == sessions[r].q IN
    /\ sessions[r].raised = ""
    /\ \A f \in Supplied(q.data) : Db[q.table][1][f] = q.data[f][1]

\* C29: when two update requests for the same entity run concurrently and
\* supply disjoint sets of fields, both succeed and the final store holds
\* both changes.
C29_BothChangesKept ==
    BothDone => \A r \in UpdateIds : ChangeKept(r)

\* the same, where neither request is a PUT of a payee
PartialChangesKept ==
    (BothDone /\ \A r \in UpdateIds : Partial(sessions[r].q.op))
        => \A r \in UpdateIds : ChangeKept(r)

\* the operations whose handler passes partial=True to the update service
PartialOps == PatchOps \cup {"update_account_full"}

\* C30: in a partial update of an existing row, a field the body supplies as
\* null is written: the request is answered 200 and the stored field is
\* null, or it is refused and the store is as before; a field the body omits
\* keeps its stored value either way.
C30_PresenceDecides ==
    [][(Served /\ request'.op \in PartialOps
          /\ request'.id \in DOMAIN TableOf(Db, request'.op)) =>
        LET q == request'
            old == TableOf(Db, q.op)[q.id]
            new == TableOf(Db', q.op)[q.id]
        IN  \A f \in DOMAIN q.data :
              /\ q.data[f] = <<NullOf(f)>> =>
                    \/ response'.status = 200 /\ new[f] = NullOf(f)
                    \/ response'.status # 200 /\ Db' = Db
              /\ q.data[f] = << >> => new[f] = old[f]]_vars

\* PATCH /categories/{id} with category_group null and no category_name is
\* applied: the group is null and the name is the stored one
C30_Witness ==
    /\ request # NONE
    /\ request.op = "update_category_patch"
    /\ request.data.category_group = <<NULLS>>
    /\ request.data.category_name = << >>
    /\ response.status = 200
    /\ categories[request.id].category_group = NULLS
    /\ categories[request.id].category_name # NULLS

====
